---- MODULE Spec2Model ----
(***************************************************************************)
(* A model of the sampling-and-storage engine of the system monitoring     *)
(* dashboard: the RingBuffer and MemoryStore (store/memory_store.h/.cpp),  *)
(* the selector renderers (metric_with_labels, build_selector), the        *)
(* counter-delta collectors (CPU, disk, network) and the sampler's         *)
(* sample_*_metrics steps.                                                 *)
(*                                                                         *)
(* Strings that are rendered by the program (selectors) are sequences of   *)
(* tokens, so that two renderings are equal exactly when the rendered      *)
(* strings are.  A double is an exact fraction [n, d] with d > 0.           *)
(*                                                                         *)
(* Spec drives the store one call at a time, ThreadSpec takes append and   *)
(* query apart at their lock operations and runs them on several threads,  *)
(* SamplerSpec runs the sampler's sample_*_metrics over the collectors.    *)
(* StallSpec is ThreadSpec under a scheduler that may stop one thread      *)
(* inside a series lock, LockSpec adds append_vector, query_vector, count  *)
(* and list_series_keys to the threads, SnapshotSpec drives the snapshot   *)
(* cells beside the time series.  ProcSpec applies the process differ      *)
(* (compute_proc_rows, top_by_cpu) to two reads of the process table.      *)
(* MainSpec runs main, the loop of the sampler thread and the /api/info    *)
(* handler; FairMainSpec is MainSpec with every step of the sampler thread *)
(* and of main after listen eventually taken.  PublishSpec calls           *)
(* sample_process_metrics again and again beside the /api/processes        *)
(* handler, PollerSpec runs the UI's poller (makePoller in web/app.js) on  *)
(* the browser's event loop.                                               *)
(***************************************************************************)
EXTENDS Integers, Sequences, FiniteSets, TLC

VARIABLES
    per_metric_capacity,  \* MemoryStore::per_metric_capacity_
    series,               \* MemoryStore::series_     : key -> RingBuffer<Sample>
    vec_series,           \* MemoryStore::vec_series_ : key -> RingBuffer<SampleVec>
    ret,                  \* what the last store call returned to its caller
    log,                  \* history: key -> the samples passed to append, in order
    vlog,                 \* history: key -> the samples passed to append_vector
    map_mtx,              \* MemoryStore::map_mtx_ : the thread that holds it, or "free"
    vec_mtx,              \* MemoryStore::vec_mtx_ : the thread that holds it, or "free"
    pc,                   \* thread -> where it is in the store call it is running
    arg,                  \* thread -> the arguments of that call
    sp,                   \* thread -> its local Series pointer s: a key, or "nullptr"
    out,                  \* thread -> what its last query returned
    calls,                \* thread -> the number of store calls it has made
    passed,               \* history: the <<key, sample>> pairs passed to append
    snapshots,            \* MemoryStore::snapshots_ : key -> JSON blob
    puts,                 \* history: the <<key, blob>> pairs passed to put_snapshot
    previous_process_snapshot,       \* start_sampler: the sampler thread's locals
    current_process_snapshot,
    have_previous_process_snapshot,
    proc_rows,            \* what the last call of the process differ returned
    metadata,             \* MemoryStore::metadata_ : key -> JSON value
    meta_puts,            \* history: the <<key, value>> pairs passed to put_metadata
    sampler_running,      \* main: std::atomic<bool> sampler_running
    main_pc,              \* where main is
    sampler_pc,           \* where the sampler thread is in start_sampler's loop
    tick_timestamp_ms,    \* start_sampler: timestamp_ms, the timestamp of the iteration
    iterations,           \* the number of iterations the loop has started
    ran,                  \* history: the sample_* calls made in this iteration
    info,                 \* what the last GET /api/info answered
    server_ok,            \* main: what server.listen returned
    cleared_at,           \* history: where the sampler was when main cleared the flag
    proc_seen,            \* history: the calls of sample_process_metrics and its last successful read
    poller,               \* makePoller: the closure's timer, stopped, inFlight, and the timers and tasks outstanding
    poller_last           \* history: the last turn of the event loop that touched the poller

storeVars == <<per_metric_capacity, series, vec_series, ret, log, vlog>>
threadVars == <<map_mtx, vec_mtx, pc, arg, sp, out, calls, passed>>
snapVars == <<snapshots, puts>>
procVars == <<previous_process_snapshot, current_process_snapshot,
              have_previous_process_snapshot, proc_rows>>
mainVars == <<metadata, meta_puts, sampler_running, main_pc, sampler_pc, tick_timestamp_ms,
             iterations, ran, info, server_ok, cleared_at>>
publishVars == <<proc_seen>>
pollerVars == <<poller, poller_last>>
otherVars == <<procVars, mainVars, publishVars, pollerVars>>

\* the collectors' static variables, the sampler thread's buffers, the number
\* of sample_* calls made, what the last collector call returned, what each
\* rate collector read at its last successful call (a history variable), and
\* whether the process has crashed
VARIABLES last_total, total_initialized, last_per_cpu, core_initialized,
          prev_values, disk_initialized, disk_prev_time,
          prev, net_initialized, net_prev_time,
          core_percent_buffer, disk_io_buffer, interface_rates,
          ticks, signal, seen, crashed
cpuVars == <<last_total, total_initialized, last_per_cpu, core_initialized,
             core_percent_buffer>>
diskVars == <<prev_values, disk_initialized, disk_prev_time, disk_io_buffer>>
netVars == <<prev, net_initialized, net_prev_time, interface_rates>>
collectorVars == <<cpuVars, diskVars, netVars, ticks, signal, seen, crashed>>

-----------------------------------------------------------------------------
(* Bounds of the model *)

MaxKeep == 3        \* keep_seconds is drawn from 0..MaxKeep
MaxPeriod == 2      \* sample_period_s is drawn from 0..MaxPeriod
MaxAppends == 3     \* appends (scalar and vector together) in one behaviour

TsSet == {1, 2, 3}           \* timestamps passed to append
\* the samples passed to append: one at each timestamp, and a second one at 2
ScalarSamples ==
    {[ts_ms |-> t, value |-> 0] : t \in TsSet} \cup {[ts_ms |-> 2, value |-> 1]}
Bounds == 0..4               \* from_ms / to_ms of a range query
\* the windows the handlers ask for: all three timestamps, the middle one, none
QueryWindows == {<<1, 3>>, <<2, 2>>, <<4, 4>>}
VecSamples == {[ts_ms |-> 1, vals |-> <<1>>], [ts_ms |-> 2, vals |-> <<0, 1>>]}

Max(a, b) == IF a >= b THEN a ELSE b
Min(a, b) == IF a <= b THEN a ELSE b

-----------------------------------------------------------------------------
(* Selectors *)

LabelA == <<"a", "1">>
LabelB == <<"b", "2">>

\* the label lists the sampler passes to metric_with_labels
SamplerLabels == {<<LabelA>>, <<LabelA, LabelB>>}

RECURSIVE RenderLabels(_)
RenderLabels(kvs) ==
    IF kvs = <<>> THEN <<>>
    ELSE <<kvs[1][1], "=", kvs[1][2]>>
         \o (IF Len(kvs) > 1 THEN <<",">> ELSE <<>>)
         \o RenderLabels(Tail(kvs))

\* name + "{" + k=v joined by "," in the order given + "}"
metric_with_labels(name, kvs) == <<name, "{">> \o RenderLabels(kvs) \o <<"}">>

\* iter is the order in which the unordered_map of labels is iterated
build_selector(metric_name, iter) ==
    IF iter = <<>> THEN <<metric_name>>
    ELSE <<metric_name, "{">> \o RenderLabels(iter) \o <<"}">>

\* the orders in which an unordered_map holding the pairs of kvs may iterate
IterationOrders(kvs) ==
    LET S == {kvs[i] : i \in 1..Len(kvs)}
    IN {p \in [1..Cardinality(S) -> S] : \A i, j \in 1..Cardinality(S) : i # j => p[i] # p[j]}

\* what a rendered selector denotes: its metric name and its set of labels
SelectorName(key) == key[1]
SelectorLabels(key) ==
    {<<key[i - 1], key[i + 1]>> : i \in {j \in 1..Len(key) : key[j] = "="}}
SameSeries(k1, k2) ==
    SelectorName(k1) = SelectorName(k2) /\ SelectorLabels(k1) = SelectorLabels(k2)

\* the selectors the sampler appends under (scalar, vector) and those the
\* handlers may render for the same metric and labels
SamplerKeys == {metric_with_labels("m", kvs) : kvs \in SamplerLabels}
SamplerVecKeys == {metric_with_labels("m", <<LabelA>>)}
ApiKeys == UNION {{build_selector("m", it) : it \in IterationOrders(kvs)} : kvs \in SamplerLabels}
Keys == SamplerKeys \cup ApiKeys

-----------------------------------------------------------------------------
(* RingBuffer<T> *)

DefaultSample == [ts_ms |-> 0, value |-> 0]
DefaultSampleVec == [ts_ms |-> 0, vals |-> <<>>]

\* explicit RingBuffer(cap): buffer_(cap), cap_(cap), head_(0), tail_(0), size_(0)
\* buffer_ is indexed from 0 in the code and from 1 here
RingBuffer(cap, dflt) ==
    [buffer |-> [i \in 1..cap |-> dflt], cap |-> cap, head |-> 0, tail |-> 0, size |-> 0]

\* RingBuffer::append that keeps the tail where it is when the buffer is full
RingAppend_KeepTail(r, x) ==
    LET written == [r EXCEPT !.buffer[r.head + 1] = x, !.head = (r.head + 1) % r.cap]
    IN IF r.size < r.cap THEN [written EXCEPT !.size = r.size + 1] ELSE written

\* buffer_[head_] = x is a member-wise copy: one store per field of T
RingStoreField(r, f, v) == [r EXCEPT !.buffer[r.head + 1][f] = v]

\* the rest of RingBuffer::append: advance head_, then grow or drop the oldest
RingAdvance_Unbounded(r) ==
    [r EXCEPT !.head = (r.head + 1) % r.cap, !.size = r.size + 1]

RingAdvance(r) ==
    LET moved == [r EXCEPT !.head = (r.head + 1) % r.cap]
    IN IF r.size < r.cap
       THEN [moved EXCEPT !.size = r.size + 1]
       ELSE [moved EXCEPT !.tail = (r.tail + 1) % r.cap]

RingAppend_RejectOlder(r, x) ==
    LET newest == r.buffer[((r.head + r.cap - 1) % r.cap) + 1]
        written == [r EXCEPT !.buffer[r.head + 1] = x]
    IN IF r.size > 0 /\ x.ts_ms < newest.ts_ms THEN r ELSE RingAdvance(written)

RingAppend(r, x) ==
    LET written == [r EXCEPT !.buffer[r.head + 1] = x]
    IN RingAdvance(written)

\* RingBuffer::snapshot: the retained items, oldest first
RingSnapshot(r) == [i \in 1..r.size |-> r.buffer[((r.tail + i - 1) % r.cap) + 1]]

\* RingBuffer::range with the upper bound taken as exclusive
RECURSIVE RangeFrom_ExclusiveTo(_, _, _, _)
RangeFrom_ExclusiveTo(r, i, from_ms, to_ms) ==
    IF i >= r.size THEN <<>>
    ELSE LET s == r.buffer[((r.tail + i) % r.cap) + 1]
         IN (IF s.ts_ms >= from_ms /\ s.ts_ms < to_ms THEN <<s>> ELSE <<>>)
            \o RangeFrom_ExclusiveTo(r, i + 1, from_ms, to_ms)

RECURSIVE RangeFrom(_, _, _, _)
RangeFrom(r, i, from_ms, to_ms) ==
    IF i >= r.size THEN <<>>
    ELSE LET s == r.buffer[((r.tail + i) % r.cap) + 1]
         IN (IF s.ts_ms >= from_ms /\ s.ts_ms <= to_ms THEN <<s>> ELSE <<>>)
            \o RangeFrom(r, i + 1, from_ms, to_ms)

RingRange(r, from_ms, to_ms) == RangeFrom(r, 0, from_ms, to_ms)

-----------------------------------------------------------------------------
(* MemoryStore *)

\* MemoryStore::MemoryStore
\* a capacity that is not clamped to one sample
Capacity_Unclamped(keep_seconds, period) == keep_seconds \div Max(1, period)

Capacity(keep_seconds, period) == Max(1, keep_seconds \div Max(1, period))

\* struct Series / VecSeries: a ring and the mutex that guards it
Series(cap, dflt) == [ring |-> RingBuffer(cap, dflt), mtx |-> "free"]

\* an insertion that puts a fresh series in the place of the one it finds
TryEmplace_Replace(map, metric, dflt) ==
    [k \in DOMAIN map \cup {metric} |->
        IF k = metric THEN Series(per_metric_capacity, dflt) ELSE map[k]]

\* series_.try_emplace(metric, per_metric_capacity_)
TryEmplace(map, metric, dflt) ==
    IF metric \in DOMAIN map THEN map
    ELSE [k \in DOMAIN map \cup {metric} |->
            IF k = metric THEN Series(per_metric_capacity, dflt) ELSE map[k]]

\* the history of a key that has none yet is empty
LogOf(l, key) == IF key \in DOMAIN l THEN l[key] ELSE <<>>
Logged(l, key, x) ==
    [k \in DOMAIN l \cup {key} |-> IF k = key THEN Append(LogOf(l, key), x) ELSE l[k]]

RECURSIVE SumLen(_, _)
SumLen(l, ks) ==
    IF ks = {} THEN 0
    ELSE LET k == CHOOSE x \in ks : TRUE IN Len(l[k]) + SumLen(l, ks \ {k})
Appends == SumLen(log, DOMAIN log) + SumLen(vlog, DOMAIN vlog)

StoreInit ==
    /\ \E keep \in 0..MaxKeep, period \in 0..MaxPeriod :
          per_metric_capacity = Capacity(keep, period)
    /\ series = <<>>
    /\ vec_series = <<>>
    /\ ret = [op |-> "none"]
    /\ log = <<>>
    /\ vlog = <<>>

\* MemoryStore::append
StoreAppend(metric, ts_ms, value) ==
    LET x == [ts_ms |-> ts_ms, value |-> value]
        m == TryEmplace(series, metric, DefaultSample)
    IN /\ series' = [m EXCEPT ![metric].ring = RingAppend(m[metric].ring, x)]
       /\ log' = Logged(log, metric, x)
       /\ ret' = [op |-> "append", key |-> metric]
       /\ UNCHANGED <<per_metric_capacity, vec_series, vlog>>

\* MemoryStore::append_vector
\* an append_vector that creates a scalar series of the same name as well
StoreAppendVector_BothMaps(metric, ts_ms, vals) ==
    LET x == [ts_ms |-> ts_ms, vals |-> vals]
        m == TryEmplace(vec_series, metric, DefaultSampleVec)
    IN /\ vec_series' = [m EXCEPT ![metric].ring = RingAppend(m[metric].ring, x)]
       /\ vlog' = Logged(vlog, metric, x)
       /\ ret' = [op |-> "append_vector", key |-> metric]
       /\ series' = TryEmplace(series, metric, DefaultSample)
       /\ UNCHANGED <<per_metric_capacity, log>>

StoreAppendVector(metric, ts_ms, vals) ==
    LET x == [ts_ms |-> ts_ms, vals |-> vals]
        m == TryEmplace(vec_series, metric, DefaultSampleVec)
    IN /\ vec_series' = [m EXCEPT ![metric].ring = RingAppend(m[metric].ring, x)]
       /\ vlog' = Logged(vlog, metric, x)
       /\ ret' = [op |-> "append_vector", key |-> metric]
       /\ UNCHANGED <<per_metric_capacity, series, log>>

\* find_series_ that hands out some existing series when the key is not found
find_series_AnySeries(metric) ==
    IF metric \in DOMAIN series THEN metric
    ELSE IF DOMAIN series = {} THEN "nullptr"
    ELSE CHOOSE k \in DOMAIN series : TRUE

\* MemoryStore::find_series_ : the key when found, "nullptr" otherwise
find_series(metric) == IF metric \in DOMAIN series THEN metric ELSE "nullptr"

\* MemoryStore::query
QueryResult(metric, from_ms, to_ms) ==
    LET s == find_series(metric)
    IN IF s = "nullptr" THEN <<>> ELSE RingRange(series[s].ring, from_ms, to_ms)

\* a query that creates the series it does not find
StoreQuery_CreateOnMiss(metric, from_ms, to_ms) ==
    /\ ret' = [op |-> "query", key |-> metric, from_ms |-> from_ms, to_ms |-> to_ms,
               val |-> QueryResult(metric, from_ms, to_ms)]
    /\ series' = TryEmplace(series, metric, DefaultSample)
    /\ UNCHANGED <<per_metric_capacity, vec_series, log, vlog>>

StoreQuery(metric, from_ms, to_ms) ==
    /\ ret' = [op |-> "query", key |-> metric, from_ms |-> from_ms, to_ms |-> to_ms,
               val |-> QueryResult(metric, from_ms, to_ms)]
    /\ UNCHANGED <<per_metric_capacity, series, vec_series, log, vlog>>

\* MemoryStore::query_vector
QueryVectorResult(metric, from_ms, to_ms) ==
    IF metric \notin DOMAIN vec_series THEN <<>>
    ELSE RingRange(vec_series[metric].ring, from_ms, to_ms)

StoreQueryVector(metric, from_ms, to_ms) ==
    /\ ret' = [op |-> "query_vector", key |-> metric, from_ms |-> from_ms, to_ms |-> to_ms,
               val |-> QueryVectorResult(metric, from_ms, to_ms)]
    /\ UNCHANGED <<per_metric_capacity, series, vec_series, log, vlog>>

-----------------------------------------------------------------------------
(* The store as its callers drive it: the sampler appends under the        *)
(* selectors metric_with_labels renders, the HTTP handlers query under the *)
(* selectors build_selector renders.                                       *)

SamplerAppend ==
    /\ Appends < MaxAppends
    /\ \E selector \in SamplerKeys, x \in ScalarSamples :
          StoreAppend(selector, x.ts_ms, x.value)
    /\ UNCHANGED <<threadVars, snapVars, otherVars, collectorVars>>

SamplerAppendVector ==
    /\ Appends < MaxAppends
    /\ \E selector \in SamplerVecKeys, x \in VecSamples :
          StoreAppendVector(selector, x.ts_ms, x.vals)
    /\ UNCHANGED <<threadVars, snapVars, otherVars, collectorVars>>

\* MemoryStore::vec_series_exists
vec_series_exists(key) == key \in DOMAIN vec_series

\* GET /api/query: the vector series when the selector has one, the scalar one otherwise
ApiQuery ==
    /\ \E selector \in ApiKeys, w \in QueryWindows :
          IF vec_series_exists(selector)
          THEN StoreQueryVector(selector, w[1], w[2])
          ELSE StoreQuery(selector, w[1], w[2])
    /\ UNCHANGED <<threadVars, snapVars, otherVars, collectorVars>>

\* GET /api/export: always the scalar series
ApiExport ==
    /\ \E selector \in ApiKeys, w \in QueryWindows :
          StoreQuery(selector, w[1], w[2])
    /\ UNCHANGED <<threadVars, snapVars, otherVars, collectorVars>>

\* the orders in which an unordered_map may be iterated
RECURSIVE KeyOrders(_)
KeyOrders(S) ==
    IF S = {} THEN {<<>>}
    ELSE UNION {{<<k>> \o rest : rest \in KeyOrders(S \ {k})} : k \in S}

\* MemoryStore::list_series_keys: the vectors it may return, the scalar keys
\* pushed first and the vector keys after them
list_series_keys ==
    {scalar \o vector : scalar \in KeyOrders(DOMAIN series),
                        vector \in KeyOrders(DOMAIN vec_series)}

\* describe_stored_metrics, behind the metrics listing route
ApiMetrics ==
    /\ \E selectors \in list_series_keys :
          ret' = [op |-> "list_series_keys", val |-> selectors]
    /\ UNCHANGED <<per_metric_capacity, series, vec_series, log, vlog>>
    /\ UNCHANGED <<threadVars, snapVars, otherVars, collectorVars>>

-----------------------------------------------------------------------------
(* The snapshot cells of the store *)

MaxPuts == 3

\* nlohmann::json(): the null value, and the array serialize_process_rows
\* builds from the rows of a process table (a row stands for its pid)
JsonNull == [type |-> "null"]
JsonArray(rows) == [type |-> "array", items |-> rows]
serialize_process_rows(rows) == JsonArray(rows)
ProcessTables == {<<>>, <<1>>, <<2, 1>>}

\* the key the sampler and the process route use, and another key
SnapshotKeys == {"processes", "other"}

SnapshotInit == snapshots = <<>> /\ puts = <<>>

\* a put_snapshot that leaves a cell that has a blob as it is
put_snapshot_KeepFirst(key, j) ==
    /\ snapshots' = [k \in DOMAIN snapshots \cup {key} |->
                        IF k \in DOMAIN snapshots THEN snapshots[k] ELSE j]
    /\ puts' = Append(puts, <<key, j>>)
    /\ ret' = [op |-> "put_snapshot", key |-> key]

\* MemoryStore::put_snapshot: snapshots_[key] = j under snap_m_
put_snapshot(key, j) ==
    /\ snapshots' = [k \in DOMAIN snapshots \cup {key} |->
                        IF k = key THEN j ELSE snapshots[k]]
    /\ puts' = Append(puts, <<key, j>>)
    /\ ret' = [op |-> "put_snapshot", key |-> key]

\* MemoryStore::get_snapshot: the blob of the cell, or json() if there is none
get_snapshot(key) == IF key \in DOMAIN snapshots THEN snapshots[key] ELSE JsonNull

\* store.put_snapshot(key, serialize_process_rows(rows))
PutSnapshot ==
    /\ Len(puts) < MaxPuts
    /\ \E key \in SnapshotKeys, rows \in ProcessTables :
          put_snapshot(key, serialize_process_rows(rows))
    /\ UNCHANGED <<per_metric_capacity, series, vec_series, log, vlog>>
    /\ UNCHANGED <<threadVars, otherVars, collectorVars>>

\* json snapshot = store.get_snapshot(key)
GetSnapshot ==
    /\ \E key \in SnapshotKeys :
          ret' = [op |-> "get_snapshot", key |-> key, val |-> get_snapshot(key)]
    /\ UNCHANGED <<per_metric_capacity, series, vec_series, log, vlog>>
    /\ UNCHANGED <<threadVars, snapVars, otherVars, collectorVars>>

-----------------------------------------------------------------------------
(* Threads calling the store concurrently: MemoryStore::append and         *)
(* MemoryStore::query taken apart at their lock operations.  Each          *)
(* appending thread has a selector of its own; a querying thread asks for  *)
(* any selector.                                                           *)

MaxCalls == 2       \* appends made by one appending thread
MaxQueries == 1     \* queries made by one querying thread

Writers == {"w1", "w2"}
Readers == {"r1", "r2"}
Threads == Writers \cup Readers
WriterKey(t) ==
    IF t = "w1" THEN metric_with_labels("m", <<LabelA>>)
    ELSE metric_with_labels("m", <<LabelA, LabelB>>)
\* the selectors queried: the appended ones and one that is never appended
QueriedKeys == SamplerKeys \cup {build_selector("m", <<>>)}
\* the n-th sample a thread appends: no field of one sample is a field of
\* another, nor of Sample{}
ThreadSample(n) == [ts_ms |-> n, value |-> 10 * n]

ThreadInit ==
    /\ map_mtx = "free"
    /\ vec_mtx = "free"
    /\ pc = [t \in Threads |-> "idle"]
    /\ arg = [t \in Threads |-> [op |-> "none"]]
    /\ sp = [t \in Threads |-> "nullptr"]
    /\ out = [t \in Threads |-> [key |-> <<>>, val |-> <<>>]]
    /\ calls = [t \in Threads |-> 0]
    /\ passed = {}

\* a scope of lk(map_mtx_) that reaches to the end of the call: the mutex is
\* still held when the series is locked
UnlockMap_Late(t) == map_mtx' = map_mtx

\* std::scoped_lock lk(map_mtx_) and the end of its scope
LockMap(t) == map_mtx = "free" /\ map_mtx' = t
UnlockMap(t) == map_mtx' = "free"

\* a lock of s->mtx that does not wait for the holder
LockSeries_NoWait(t, k) == series' = [series EXCEPT ![k].mtx = t]

\* one mutex for all series: the lock waits until no series is locked
LockSeries_StoreWide(t, k) ==
    /\ \A j \in DOMAIN series : series[j].mtx = "free"
    /\ series' = [series EXCEPT ![k].mtx = t]

\* std::scoped_lock lk(s->mtx) and the end of its scope
LockSeries(t, k) == series[k].mtx = "free" /\ series' = [series EXCEPT ![k].mtx = t]
UnlockSeries(t, k) == series' = [series EXCEPT ![k].mtx = "free"]

Goto(t, label) == pc' = [pc EXCEPT ![t] = label]

\* a thread calls append(metric, ts_ms, value)
AppendCall(t) ==
    /\ t \in Writers /\ pc[t] = "idle" /\ calls[t] < MaxCalls
    /\ LET x == ThreadSample(calls[t] + 1) IN
          /\ arg' = [arg EXCEPT ![t] = [op |-> "append", key |-> WriterKey(t), x |-> x]]
          /\ passed' = passed \cup {<<WriterKey(t), x>>}
    /\ calls' = [calls EXCEPT ![t] = @ + 1]
    /\ Goto(t, "a_map")
    /\ UNCHANGED <<storeVars, map_mtx, sp, out, vec_mtx, snapVars, otherVars, collectorVars>>

\* scoped_lock lk(map_mtx_); try_emplace; s = &it->second
AppendLockMap(t) ==
    /\ pc[t] = "a_map"
    /\ LockMap(t)
    /\ series' = TryEmplace(series, arg[t].key, DefaultSample)
    /\ sp' = [sp EXCEPT ![t] = arg[t].key]
    /\ Goto(t, "a_unmap")
    /\ UNCHANGED <<per_metric_capacity, vec_series, ret, log, vlog, arg, out, calls, passed, vec_mtx, snapVars, otherVars, collectorVars>>

AppendUnlockMap(t) ==
    /\ pc[t] = "a_unmap"
    /\ UnlockMap(t)
    /\ Goto(t, "a_lock")
    /\ UNCHANGED <<storeVars, arg, sp, out, calls, passed, vec_mtx, snapVars, otherVars, collectorVars>>

AppendLockSeries(t) ==
    /\ pc[t] = "a_lock"
    /\ LockSeries(t, sp[t])
    /\ Goto(t, "a_ts")
    /\ UNCHANGED <<per_metric_capacity, vec_series, ret, log, vlog, map_mtx, arg, sp, out, calls, passed, vec_mtx, snapVars, otherVars, collectorVars>>

\* s->ring.append(Sample{ts_ms, value}): buffer_[head_].ts_ms = x.ts_ms
AppendStoreTs(t) ==
    /\ pc[t] = "a_ts"
    /\ series' = [series EXCEPT ![sp[t]].ring = RingStoreField(@, "ts_ms", arg[t].x.ts_ms)]
    /\ Goto(t, "a_value")
    /\ UNCHANGED <<per_metric_capacity, vec_series, ret, log, vlog, map_mtx, arg, sp, out, calls, passed, vec_mtx, snapVars, otherVars, collectorVars>>

\* buffer_[head_].value = x.value, then head_, size_ and tail_
AppendStoreValue(t) ==
    /\ pc[t] = "a_value"
    /\ series' = [series EXCEPT
          ![sp[t]].ring = RingAdvance(RingStoreField(@, "value", arg[t].x.value))]
    /\ log' = Logged(log, arg[t].key, arg[t].x)
    /\ Goto(t, "a_unlock")
    /\ UNCHANGED <<per_metric_capacity, vec_series, ret, vlog, map_mtx, arg, sp, out, calls, passed, vec_mtx, snapVars, otherVars, collectorVars>>

AppendUnlockSeries(t) ==
    /\ pc[t] = "a_unlock"
    /\ UnlockSeries(t, sp[t])
    /\ Goto(t, "idle")
    /\ UNCHANGED <<per_metric_capacity, vec_series, ret, log, vlog, map_mtx, arg, sp, out, calls, passed, vec_mtx, snapVars, otherVars, collectorVars>>

\* a thread calls query(metric, from_ms, to_ms)
QueryCall(t) ==
    /\ t \in Readers /\ pc[t] = "idle" /\ calls[t] < MaxQueries
    /\ \E k \in QueriedKeys :
          arg' = [arg EXCEPT ![t] = [op |-> "query", key |-> k, from_ms |-> 0, to_ms |-> 4]]
    /\ calls' = [calls EXCEPT ![t] = @ + 1]
    /\ Goto(t, "q_map")
    /\ UNCHANGED <<storeVars, map_mtx, sp, out, passed, vec_mtx, snapVars, otherVars, collectorVars>>

\* find_series_: scoped_lock lk(map_mtx_); series_.find(metric)
QueryFind(t) ==
    /\ pc[t] = "q_map"
    /\ LockMap(t)
    /\ sp' = [sp EXCEPT ![t] = find_series(arg[t].key)]
    /\ Goto(t, "q_unmap")
    /\ UNCHANGED <<storeVars, arg, out, calls, passed, vec_mtx, snapVars, otherVars, collectorVars>>

\* find_series_ returns; if (!s) return {}
QueryUnlockMap(t) ==
    /\ pc[t] = "q_unmap"
    /\ UnlockMap(t)
    /\ IF sp[t] = "nullptr"
       THEN /\ out' = [out EXCEPT ![t] = [key |-> arg[t].key, val |-> <<>>]]
            /\ Goto(t, "idle")
       ELSE /\ out' = out
            /\ Goto(t, "q_lock")
    /\ UNCHANGED <<storeVars, arg, sp, calls, passed, vec_mtx, snapVars, otherVars, collectorVars>>

QueryLockSeries(t) ==
    /\ pc[t] = "q_lock"
    /\ LockSeries(t, sp[t])
    /\ Goto(t, "q_range")
    /\ UNCHANGED <<per_metric_capacity, vec_series, ret, log, vlog, map_mtx, arg, sp, out, calls, passed, vec_mtx, snapVars, otherVars, collectorVars>>

\* s->ring.range(from_ms, to_ms)
QueryRange(t) ==
    /\ pc[t] = "q_range"
    /\ out' = [out EXCEPT ![t] =
          [key |-> arg[t].key,
           val |-> RingRange(series[sp[t]].ring, arg[t].from_ms, arg[t].to_ms)]]
    /\ Goto(t, "q_unlock")
    /\ UNCHANGED <<storeVars, map_mtx, arg, sp, calls, passed, vec_mtx, snapVars, otherVars, collectorVars>>

QueryUnlockSeries(t) ==
    /\ pc[t] = "q_unlock"
    /\ UnlockSeries(t, sp[t])
    /\ Goto(t, "idle")
    /\ UNCHANGED <<per_metric_capacity, vec_series, ret, log, vlog, map_mtx, arg, sp, out, calls, passed, vec_mtx, snapVars, otherVars, collectorVars>>

\* the steps of a call under way
Proceed(t) ==
    \/ AppendLockMap(t)
    \/ AppendUnlockMap(t)
    \/ AppendLockSeries(t)
    \/ AppendStoreTs(t)
    \/ AppendStoreValue(t)
    \/ AppendUnlockSeries(t)
    \/ QueryFind(t)
    \/ QueryUnlockMap(t)
    \/ QueryLockSeries(t)
    \/ QueryRange(t)
    \/ QueryUnlockSeries(t)

\* std::scoped_lock lk(vec_mtx_) and the end of its scope
LockVec(t) == vec_mtx = "free" /\ vec_mtx' = t
UnlockVec(t) == vec_mtx' = "free"

\* std::scoped_lock lk(vs->mtx) and the end of its scope
LockVecSeries(t, k) ==
    vec_series[k].mtx = "free" /\ vec_series' = [vec_series EXCEPT ![k].mtx = t]
UnlockVecSeries(t, k) == vec_series' = [vec_series EXCEPT ![k].mtx = "free"]

\* the selector of the vector series, which is a scalar selector too, and the
\* selectors the other calls name: that one and one that is never appended
VectorKey == CHOOSE k \in SamplerVecKeys : TRUE
NamedKeys == {VectorKey, build_selector("m", <<>>)}

\* a thread calls append_vector(metric, ts_ms, vals)
AppendVectorCall(t) ==
    /\ t \in Writers /\ pc[t] = "idle" /\ calls[t] < MaxCalls
    /\ arg' = [arg EXCEPT ![t] = [op |-> "append_vector", key |-> VectorKey,
                                  x |-> [ts_ms |-> calls[t] + 1, vals |-> <<calls[t] + 1>>]]]
    /\ calls' = [calls EXCEPT ![t] = @ + 1]
    /\ Goto(t, "v_map")
    /\ UNCHANGED <<storeVars, map_mtx, vec_mtx, sp, out, passed, snapVars, otherVars, collectorVars>>

\* scoped_lock lk(vec_mtx_); try_emplace; vs = &it->second
AppendVectorLockVec(t) ==
    /\ pc[t] = "v_map"
    /\ LockVec(t)
    /\ vec_series' = TryEmplace(vec_series, arg[t].key, DefaultSampleVec)
    /\ sp' = [sp EXCEPT ![t] = arg[t].key]
    /\ Goto(t, "v_unmap")
    /\ UNCHANGED <<per_metric_capacity, series, ret, log, vlog, map_mtx, arg, out, calls, passed, snapVars, otherVars, collectorVars>>

AppendVectorUnlockVec(t) ==
    /\ pc[t] = "v_unmap"
    /\ UnlockVec(t)
    /\ Goto(t, "v_lock")
    /\ UNCHANGED <<storeVars, map_mtx, arg, sp, out, calls, passed, snapVars, otherVars, collectorVars>>

AppendVectorLockSeries(t) ==
    /\ pc[t] = "v_lock"
    /\ LockVecSeries(t, sp[t])
    /\ Goto(t, "v_append")
    /\ UNCHANGED <<per_metric_capacity, series, ret, log, vlog, map_mtx, vec_mtx, arg, sp, out, calls, passed, snapVars, otherVars, collectorVars>>

\* vs->ring.append(SampleVec{ts_ms, std::move(vals)})
AppendVectorRing(t) ==
    /\ pc[t] = "v_append"
    /\ vec_series' = [vec_series EXCEPT ![sp[t]].ring = RingAppend(@, arg[t].x)]
    /\ vlog' = Logged(vlog, arg[t].key, arg[t].x)
    /\ Goto(t, "v_unlock")
    /\ UNCHANGED <<per_metric_capacity, series, ret, log, map_mtx, vec_mtx, arg, sp, out, calls, passed, snapVars, otherVars, collectorVars>>

AppendVectorUnlockSeries(t) ==
    /\ pc[t] = "v_unlock"
    /\ UnlockVecSeries(t, sp[t])
    /\ Goto(t, "idle")
    /\ UNCHANGED <<per_metric_capacity, series, ret, log, vlog, map_mtx, vec_mtx, arg, sp, out, calls, passed, snapVars, otherVars, collectorVars>>

\* a thread calls query_vector(metric, from_ms, to_ms)
QueryVectorCall(t) ==
    /\ t \in Readers /\ pc[t] = "idle" /\ calls[t] < MaxQueries
    /\ \E k \in NamedKeys :
          arg' = [arg EXCEPT ![t] = [op |-> "query_vector", key |-> k, from_ms |-> 0, to_ms |-> 4]]
    /\ calls' = [calls EXCEPT ![t] = @ + 1]
    /\ Goto(t, "qv_map")
    /\ UNCHANGED <<storeVars, map_mtx, vec_mtx, sp, out, passed, snapVars, otherVars, collectorVars>>

\* scoped_lock lk(vec_mtx_); vec_series_.find(metric)
QueryVectorFind(t) ==
    /\ pc[t] = "qv_map"
    /\ LockVec(t)
    /\ sp' = [sp EXCEPT ![t] = IF arg[t].key \in DOMAIN vec_series THEN arg[t].key ELSE "nullptr"]
    /\ Goto(t, "qv_unmap")
    /\ UNCHANGED <<storeVars, map_mtx, arg, out, calls, passed, snapVars, otherVars, collectorVars>>

\* if (it == vec_series_.end()) return {}; or the end of the scope of lk
QueryVectorUnlockVec(t) ==
    /\ pc[t] = "qv_unmap"
    /\ UnlockVec(t)
    /\ IF sp[t] = "nullptr"
       THEN /\ out' = [out EXCEPT ![t] = [key |-> arg[t].key, val |-> <<>>]]
            /\ Goto(t, "idle")
       ELSE /\ out' = out
            /\ Goto(t, "qv_lock")
    /\ UNCHANGED <<storeVars, map_mtx, arg, sp, calls, passed, snapVars, otherVars, collectorVars>>

QueryVectorLockSeries(t) ==
    /\ pc[t] = "qv_lock"
    /\ LockVecSeries(t, sp[t])
    /\ Goto(t, "qv_range")
    /\ UNCHANGED <<per_metric_capacity, series, ret, log, vlog, map_mtx, vec_mtx, arg, sp, out, calls, passed, snapVars, otherVars, collectorVars>>

\* vs->ring.range(from_ms, to_ms)
QueryVectorRange(t) ==
    /\ pc[t] = "qv_range"
    /\ out' = [out EXCEPT ![t] =
          [key |-> arg[t].key,
           val |-> RingRange(vec_series[sp[t]].ring, arg[t].from_ms, arg[t].to_ms)]]
    /\ Goto(t, "qv_unlock")
    /\ UNCHANGED <<storeVars, map_mtx, vec_mtx, arg, sp, calls, passed, snapVars, otherVars, collectorVars>>

QueryVectorUnlockSeries(t) ==
    /\ pc[t] = "qv_unlock"
    /\ UnlockVecSeries(t, sp[t])
    /\ Goto(t, "idle")
    /\ UNCHANGED <<per_metric_capacity, series, ret, log, vlog, map_mtx, vec_mtx, arg, sp, out, calls, passed, snapVars, otherVars, collectorVars>>

\* a thread calls count(metric)
CountCall(t) ==
    /\ t \in Readers /\ pc[t] = "idle" /\ calls[t] < MaxQueries
    /\ \E k \in NamedKeys : arg' = [arg EXCEPT ![t] = [op |-> "count", key |-> k]]
    /\ calls' = [calls EXCEPT ![t] = @ + 1]
    /\ Goto(t, "c_map")
    /\ UNCHANGED <<storeVars, map_mtx, vec_mtx, sp, out, passed, snapVars, otherVars, collectorVars>>

\* find_series_: scoped_lock lk(map_mtx_); series_.find(metric)
CountFind(t) ==
    /\ pc[t] = "c_map"
    /\ LockMap(t)
    /\ sp' = [sp EXCEPT ![t] = find_series(arg[t].key)]
    /\ Goto(t, "c_unmap")
    /\ UNCHANGED <<storeVars, vec_mtx, arg, out, calls, passed, snapVars, otherVars, collectorVars>>

\* find_series_ returns; if (!s) return 0
CountUnlockMap(t) ==
    /\ pc[t] = "c_unmap"
    /\ UnlockMap(t)
    /\ IF sp[t] = "nullptr"
       THEN /\ out' = [out EXCEPT ![t] = [key |-> arg[t].key, val |-> <<>>, size |-> 0]]
            /\ Goto(t, "idle")
       ELSE /\ out' = out
            /\ Goto(t, "c_lock")
    /\ UNCHANGED <<storeVars, vec_mtx, arg, sp, calls, passed, snapVars, otherVars, collectorVars>>

CountLockSeries(t) ==
    /\ pc[t] = "c_lock"
    /\ LockSeries(t, sp[t])
    /\ Goto(t, "c_size")
    /\ UNCHANGED <<per_metric_capacity, vec_series, ret, log, vlog, map_mtx, vec_mtx, arg, sp, out, calls, passed, snapVars, otherVars, collectorVars>>

\* s->ring.size()
CountSize(t) ==
    /\ pc[t] = "c_size"
    /\ out' = [out EXCEPT ![t] = [key |-> arg[t].key, val |-> <<>>, size |-> series[sp[t]].ring.size]]
    /\ Goto(t, "c_unlock")
    /\ UNCHANGED <<storeVars, map_mtx, vec_mtx, arg, sp, calls, passed, snapVars, otherVars, collectorVars>>

CountUnlockSeries(t) ==
    /\ pc[t] = "c_unlock"
    /\ UnlockSeries(t, sp[t])
    /\ Goto(t, "idle")
    /\ UNCHANGED <<per_metric_capacity, vec_series, ret, log, vlog, map_mtx, vec_mtx, arg, sp, out, calls, passed, snapVars, otherVars, collectorVars>>

\* a thread calls list_series_keys()
ListCall(t) ==
    /\ t \in Readers /\ pc[t] = "idle" /\ calls[t] < MaxQueries
    /\ arg' = [arg EXCEPT ![t] = [op |-> "list_series_keys"]]
    /\ calls' = [calls EXCEPT ![t] = @ + 1]
    /\ Goto(t, "l_map")
    /\ UNCHANGED <<storeVars, map_mtx, vec_mtx, sp, out, passed, snapVars, otherVars, collectorVars>>

\* scoped_lock lk(map_mtx_); the scalar keys are pushed
ListLockMap(t) ==
    /\ pc[t] = "l_map"
    /\ LockMap(t)
    /\ \E scalar \in KeyOrders(DOMAIN series) :
          out' = [out EXCEPT ![t] = [key |-> <<>>, val |-> scalar]]
    /\ Goto(t, "l_unmap")
    /\ UNCHANGED <<storeVars, vec_mtx, arg, sp, calls, passed, snapVars, otherVars, collectorVars>>

ListUnlockMap(t) ==
    /\ pc[t] = "l_unmap"
    /\ UnlockMap(t)
    /\ Goto(t, "l_vmap")
    /\ UNCHANGED <<storeVars, vec_mtx, arg, sp, out, calls, passed, snapVars, otherVars, collectorVars>>

\* scoped_lock lk(vec_mtx_); the vector keys are pushed after the scalar ones
ListLockVec(t) ==
    /\ pc[t] = "l_vmap"
    /\ LockVec(t)
    /\ \E vector \in KeyOrders(DOMAIN vec_series) :
          out' = [out EXCEPT ![t].val = @ \o vector]
    /\ Goto(t, "l_vunmap")
    /\ UNCHANGED <<storeVars, map_mtx, arg, sp, calls, passed, snapVars, otherVars, collectorVars>>

ListUnlockVec(t) ==
    /\ pc[t] = "l_vunmap"
    /\ UnlockVec(t)
    /\ Goto(t, "idle")
    /\ UNCHANGED <<storeVars, map_mtx, arg, sp, out, calls, passed, snapVars, otherVars, collectorVars>>

\* the steps of a call of append_vector, query_vector, count or
\* list_series_keys under way
ProceedOther(t) ==
    \/ AppendVectorLockVec(t)
    \/ AppendVectorUnlockVec(t)
    \/ AppendVectorLockSeries(t)
    \/ AppendVectorRing(t)
    \/ AppendVectorUnlockSeries(t)
    \/ QueryVectorFind(t)
    \/ QueryVectorUnlockVec(t)
    \/ QueryVectorLockSeries(t)
    \/ QueryVectorRange(t)
    \/ QueryVectorUnlockSeries(t)
    \/ CountFind(t)
    \/ CountUnlockMap(t)
    \/ CountLockSeries(t)
    \/ CountSize(t)
    \/ CountUnlockSeries(t)
    \/ ListLockMap(t)
    \/ ListUnlockMap(t)
    \/ ListLockVec(t)
    \/ ListUnlockVec(t)

-----------------------------------------------------------------------------
(* The collectors and the sampler thread that calls them once a tick.  A   *)
(* double is kept as the exact fraction n/d it is computed from.           *)

MaxTicks == 3       \* sample_* calls in one behaviour
MaxClock == 2       \* now_ms() in a collector is drawn from 1..MaxClock
MaxStamp == 1       \* now_ms() at the top of the sampler loop is drawn from 1..MaxStamp

\* now_ms(): std::chrono::system_clock, which may stand still or step back
Clock == 1..MaxClock
Stamps == 1..MaxStamp

\* cfg::HOST_LABEL, fixed when the process starts
HOST_LABEL == "h"

\* the record of a successful call: how many there were, the time and
\* counters it read, whether it found the clock not advanced, and what the
\* successful calls before it read
Seen(c, time_now, reading, zero_dt) ==
    [seen EXCEPT ![c] = [n |-> @.n + 1, time_now |-> time_now, reading |-> reading,
                         zero_dt |-> zero_dt, failed |-> FALSE,
                         earlier |-> IF @.n = 0 THEN <<>>
                                     ELSE Append(@.earlier, @.reading)]]
\* the record of a failed call
Failed(c) == [seen EXCEPT ![c].failed = TRUE]

\* some counter of the reading is lower than in the baseline
Reset(base, curr, fields) ==
    \E k \in DOMAIN base \cap DOMAIN curr : \E f \in fields : curr[k][f] < base[k][f]

Fraction(n, d) == [n |-> n, d |-> d]
Whole(n) == Fraction(n, 1)

\* (time_now > prev_time) ? (time_now - prev_time) / 1000 : 0.0
dt_s(time_now, prev_time) ==
    IF time_now > prev_time THEN Fraction(time_now - prev_time, 1000) ELSE Whole(0)

\* a test of dt_s that lets every tick through to the division
StoodStill_Never(dt) == FALSE

\* if (dt_s <= 0)
StoodStill(dt) == dt.n <= 0

\* amount / dt_s
PerSecond(amount, dt) == Fraction(amount * dt.d, dt.n)

\* the delta of a counter without the comparison that guards it
ClampedDelta_Unguarded(a, b) == b - a

\* (b >= a) ? (b - a) : 0
ClampedDelta(a, b) == IF b >= a THEN b - a ELSE 0

\* MemoryStore::append as a function of the series map
Appended(m, metric, x) ==
    LET e == TryEmplace(m, metric, DefaultSample)
    IN [e EXCEPT ![metric].ring = RingAppend(e[metric].ring, x)]

\* the appends of one sample_* call, in the order it makes them
RECURSIVE AppendedAll(_, _)
AppendedAll(m, items) ==
    IF items = <<>> THEN m
    ELSE AppendedAll(Appended(m, items[1][1], items[1][2]), Tail(items))

RECURSIVE LoggedAll(_, _)
LoggedAll(l, items) ==
    IF items = <<>> THEN l
    ELSE LoggedAll(Logged(l, items[1][1], items[1][2]), Tail(items))

\* the calls store.append(read or rx selector, ...), store.append(write or tx
\* selector, ...) for every entry of a collector's output
RECURSIVE RateAppends(_, _, _, _, _, _, _, _)
RateAppends(output, keys, timestamp_ms, metric1, field1, metric2, field2, label) ==
    IF keys = {} THEN <<>>
    ELSE LET k == CHOOSE x \in keys : TRUE
             labels == <<<<"host", HOST_LABEL>>, <<label, k>>>>
         IN <<  <<metric_with_labels(metric1, labels),
                  [ts_ms |-> timestamp_ms, value |-> output[k][field1]]>>,
                <<metric_with_labels(metric2, labels),
                  [ts_ms |-> timestamp_ms, value |-> output[k][field2]]>>  >>
            \o RateAppends(output, keys \ {k}, timestamp_ms,
                           metric1, field1, metric2, field2, label)

(* Disk *)

StartsWith(name, prefix) ==
    Len(name) >= Len(prefix) /\ SubSeq(name, 1, Len(prefix)) = prefix
IsDigit(c) == c \in {"0", "1", "2", "3", "4", "5", "6", "7", "8", "9"}

is_counted_device(n) ==
    ~(\/ StartsWith(n, <<"l", "o", "o", "p">>) \/ StartsWith(n, <<"r", "a", "m">>)
      \/ StartsWith(n, <<"s", "r">>) \/ StartsWith(n, <<"f", "d">>))

RECURSIVE StripDigits(_)
StripDigits(name) ==
    IF name # <<>> /\ IsDigit(name[Len(name)])
    THEN StripDigits(SubSeq(name, 1, Len(name) - 1))
    ELSE name

base_device_name(name) ==
    IF StartsWith(name, <<"n", "v", "m", "e">>)
       \/ StartsWith(name, <<"m", "m", "c", "b", "l", "k">>)
    THEN LET ps == {i \in 1..Len(name) : name[i] = "p"}
         IN IF ps = {} THEN name
            ELSE SubSeq(name, 1, (CHOOSE i \in ps : \A j \in ps : i <= j) - 1)
    ELSE StripDigits(name)

DiskRow(rd, wr) == [sectors_read |-> rd, sectors_written |-> wr]
sda == <<"s", "d", "a">>
sda1 == <<"s", "d", "a", "1">>
loop0 == <<"l", "o", "o", "p", "0">>
nvme0n1p1 == <<"n", "v", "m", "e", "0", "n", "1", "p", "1">>

\* /proc/diskstats as one tick finds it: unreadable, or its well-formed lines
DiskStats ==
    { [readable |-> FALSE, lines |-> <<>>],
      [readable |-> TRUE, lines |-> (sda :> DiskRow(1, 0)) @@ (loop0 :> DiskRow(3, 3))],
      [readable |-> TRUE, lines |-> (sda :> DiskRow(2, 1)) @@ (sda1 :> DiskRow(2, 0))],
      [readable |-> TRUE, lines |-> (sda :> DiskRow(0, 0)) @@ (sda1 :> DiskRow(1, 0))],
      [readable |-> TRUE, lines |-> (nvme0n1p1 :> DiskRow(1, 1))] }

\* read_diskstats: the rows of the counted devices
read_diskstats(file) ==
    [name \in {n \in DOMAIN file.lines : is_counted_device(n)} |-> file.lines[name]]

DISKSTATS_SECTOR_BYTES == 512

RECURSIVE SumField(_, _, _)
SumField(deltas, names, field) ==
    IF names = {} THEN 0
    ELSE LET n == CHOOSE x \in names : TRUE
         IN deltas[n][field] + SumField(deltas, names \ {n}, field)

\* get_disk_io: what it returns, its output and its static variables afterwards
get_disk_io(file, time_now) ==
    LET curr_rows == read_diskstats(file)
        curr_values == [name \in DOMAIN curr_rows |->
                          [bytes_read |-> curr_rows[name].sectors_read,
                           bytes_written |-> curr_rows[name].sectors_written]]
        stored == [prev_values |-> curr_values, initialized |-> TRUE, prev_time |-> time_now]
        deltas == [name \in DOMAIN curr_values \cap DOMAIN prev_values |->
                     [rd |-> ClampedDelta(prev_values[name].bytes_read,
                                          curr_values[name].bytes_read),
                      wr |-> ClampedDelta(prev_values[name].bytes_written,
                                          curr_values[name].bytes_written)]]
        by_key == [key \in {base_device_name(n) : n \in DOMAIN deltas} |->
                     LET names == {n \in DOMAIN deltas : base_device_name(n) = key}
                     IN [rd |-> SumField(deltas, names, "rd"),
                         wr |-> SumField(deltas, names, "wr")]]
        dt == dt_s(time_now, disk_prev_time)
    IN IF ~file.readable
       THEN [ok |-> FALSE, output |-> <<>>, divided |-> FALSE, reading |-> <<>>,
             static |-> [prev_values |-> prev_values, initialized |-> disk_initialized,
                         prev_time |-> disk_prev_time]]
       ELSE IF ~disk_initialized
       THEN [ok |-> TRUE, output |-> <<>>, divided |-> FALSE, reading |-> curr_values,
             static |-> stored]
       ELSE IF StoodStill(dt)
       THEN [ok |-> TRUE, output |-> <<>>, divided |-> FALSE, reading |-> curr_values,
             static |-> stored]
       ELSE [ok |-> TRUE, divided |-> TRUE, reading |-> curr_values, static |-> stored,
             output |-> [key \in DOMAIN by_key |->
                [bytes_read_per_s |->
                    PerSecond(by_key[key].rd * DISKSTATS_SECTOR_BYTES, dt),
                 bytes_written_per_s |->
                    PerSecond(by_key[key].wr * DISKSTATS_SECTOR_BYTES, dt)]]]

sample_disk_metrics ==
    /\ ~crashed /\ ticks < MaxTicks
    /\ \E timestamp_ms \in Stamps, file \in DiskStats, time_now \in Clock :
          LET r == get_disk_io(file, time_now)
              items == IF r.ok
                       THEN RateAppends(r.output, DOMAIN r.output, timestamp_ms,
                                        "disk.read", "bytes_read_per_s",
                                        "disk.write", "bytes_written_per_s", "dev")
                       ELSE <<>>
          IN /\ prev_values' = r.static.prev_values
             /\ disk_initialized' = r.static.initialized
             /\ disk_prev_time' = r.static.prev_time
             /\ disk_io_buffer' = r.output
             /\ signal' = [fn |-> "get_disk_io", ok |-> r.ok, divided |-> r.divided,
                           readable |-> file.readable,
                           reset |-> r.divided /\ Reset(prev_values, r.reading,
                                                        {"bytes_read", "bytes_written"})]
             /\ seen' = IF r.ok
                        THEN Seen("disk", time_now, r.reading,
                                  disk_initialized /\ time_now <= disk_prev_time)
                        ELSE Failed("disk")
             /\ series' = AppendedAll(series, items)
             /\ log' = LoggedAll(log, items)
    /\ ticks' = ticks + 1
    /\ UNCHANGED <<per_metric_capacity, vec_series, ret, vlog, threadVars, snapVars, otherVars,
                   cpuVars, netVars, crashed>>

(* Network *)

NetRow(rx, tx) == [rx_bytes |-> rx, tx_bytes |-> tx]

\* /proc/net/dev as one tick finds it: unreadable, or its well-formed lines
NetDev ==
    { [readable |-> FALSE, lines |-> <<>>],
      [readable |-> TRUE, lines |-> ("eth0" :> NetRow(1, 0)) @@ ("lo" :> NetRow(3, 3))],
      [readable |-> TRUE, lines |-> ("eth0" :> NetRow(2, 1)) @@ ("wlan0" :> NetRow(1, 1))],
      [readable |-> TRUE, lines |-> ("eth0" :> NetRow(0, 0)) @@ ("wlan0" :> NetRow(2, 1))] }

\* read_proc_net: the counters of every interface but "lo"
read_proc_net(file) ==
    [iface \in DOMAIN file.lines \ {"lo"} |-> file.lines[iface]]

\* what a map may hold after std::move(map): valid but unspecified
MovedFrom(m) == {<<>>, m}

\* get_net_stats: what it returns, its output and its static variables
\* afterwards.  The block of the first call has no return: it goes on to the
\* dt_s computation with prev_time = time_now and curr already moved from.
get_net_stats_KeepAbsent(file, time_now, moved) ==
    LET first == ~net_initialized
        curr == IF first THEN moved ELSE read_proc_net(file)
        base == IF first THEN read_proc_net(file) ELSE prev
        base_time == IF first THEN time_now ELSE net_prev_time
        stored == [prev |-> [k \in DOMAIN curr \cup DOMAIN prev |->
                                 IF k \in DOMAIN curr THEN curr[k] ELSE prev[k]],
                   initialized |-> TRUE, prev_time |-> time_now]
        dt == dt_s(time_now, base_time)
    IN IF ~file.readable
       THEN [ok |-> FALSE, output |-> interface_rates, divided |-> FALSE, reading |-> <<>>,
             static |-> [prev |-> prev, initialized |-> net_initialized,
                         prev_time |-> net_prev_time]]
       ELSE IF StoodStill(dt)
       THEN [ok |-> TRUE, output |-> <<>>, divided |-> FALSE,
             reading |-> read_proc_net(file), static |-> stored]
       ELSE [ok |-> TRUE, divided |-> TRUE, reading |-> read_proc_net(file), static |-> stored,
             output |-> [iface \in DOMAIN curr \cap DOMAIN base |->
                [rx_bytes_per_s |->
                    PerSecond(ClampedDelta(base[iface].rx_bytes, curr[iface].rx_bytes), dt),
                 tx_bytes_per_s |->
                    PerSecond(ClampedDelta(base[iface].tx_bytes, curr[iface].tx_bytes), dt)]]]

get_net_stats(file, time_now, moved) ==
    LET first == ~net_initialized
        curr == IF first THEN moved ELSE read_proc_net(file)
        base == IF first THEN read_proc_net(file) ELSE prev
        base_time == IF first THEN time_now ELSE net_prev_time
        stored == [prev |-> curr, initialized |-> TRUE, prev_time |-> time_now]
        dt == dt_s(time_now, base_time)
    IN IF ~file.readable
       THEN [ok |-> FALSE, output |-> interface_rates, divided |-> FALSE, reading |-> <<>>,
             static |-> [prev |-> prev, initialized |-> net_initialized,
                         prev_time |-> net_prev_time]]
       ELSE IF StoodStill(dt)
       THEN [ok |-> TRUE, output |-> <<>>, divided |-> FALSE,
             reading |-> read_proc_net(file), static |-> stored]
       ELSE [ok |-> TRUE, divided |-> TRUE, reading |-> read_proc_net(file), static |-> stored,
             output |-> [iface \in DOMAIN curr \cap DOMAIN base |->
                [rx_bytes_per_s |->
                    PerSecond(ClampedDelta(base[iface].rx_bytes, curr[iface].rx_bytes), dt),
                 tx_bytes_per_s |->
                    PerSecond(ClampedDelta(base[iface].tx_bytes, curr[iface].tx_bytes), dt)]]]

sample_network_metrics ==
    /\ ~crashed /\ ticks < MaxTicks
    /\ \E timestamp_ms \in Stamps, file \in NetDev, time_now \in Clock :
       \E moved \in MovedFrom(read_proc_net(file)) :
          LET r == get_net_stats(file, time_now, moved)
              items == IF r.ok
                       THEN RateAppends(r.output, DOMAIN r.output, timestamp_ms,
                                        "net.rx", "rx_bytes_per_s",
                                        "net.tx", "tx_bytes_per_s", "iface")
                       ELSE <<>>
          IN /\ prev' = r.static.prev
             /\ net_initialized' = r.static.initialized
             /\ net_prev_time' = r.static.prev_time
             /\ interface_rates' = r.output
             /\ signal' = [fn |-> "get_net_stats", ok |-> r.ok, divided |-> r.divided,
                           readable |-> file.readable,
                           reset |-> r.divided /\ Reset(prev, r.reading,
                                                        {"rx_bytes", "tx_bytes"})]
             /\ seen' = IF r.ok
                        THEN Seen("net", time_now, r.reading,
                                  net_initialized /\ time_now <= net_prev_time)
                        ELSE Failed("net")
             /\ series' = AppendedAll(series, items)
             /\ log' = LoggedAll(log, items)
    /\ ticks' = ticks + 1
    /\ UNCHANGED <<per_metric_capacity, vec_series, ret, vlog, threadVars, snapVars, otherVars,
                   cpuVars, diskVars, crashed>>

(* Memory *)

KB == 1024

\* /proc/meminfo as one tick finds it: unreadable, or its well-formed lines in kB
MemInfo ==
    { [readable |-> FALSE, lines |-> <<>>],
      [readable |-> TRUE, lines |-> ("MemAvailable" :> 1)],
      [readable |-> TRUE, lines |-> ("MemTotal" :> 3) @@ ("MemAvailable" :> 1)],
      [readable |-> TRUE, lines |-> ("MemTotal" :> 3) @@ ("MemFree" :> 1) @@ ("Cached" :> 1)
                                     @@ ("Shmem" :> 1)] }

read_meminfo(file) == [key \in DOMAIN file.lines |-> file.lines[key] * KB]

\* get_system_memory_bytes
get_system_memory_bytes(file) ==
    LET mi == read_meminfo(file)
        Get(key) == IF key \in DOMAIN mi THEN mi[key] ELSE 0
        total == mi["MemTotal"]
        sum == Get("MemFree") + Get("Buffers") + Get("Cached")
        avail == IF "MemAvailable" \in DOMAIN mi THEN mi["MemAvailable"]
                 ELSE IF sum > Get("Shmem") THEN sum - Get("Shmem") ELSE sum
    IN IF ~file.readable \/ "MemTotal" \notin DOMAIN mi
       THEN [ok |-> FALSE]
       ELSE [ok |-> TRUE, free_bytes |-> avail,
             used_bytes |-> IF total > avail THEN total - avail ELSE 0,
             total_bytes |-> total]

sample_memory_metrics ==
    /\ ~crashed /\ ticks < MaxTicks
    /\ \E timestamp_ms \in Stamps, file \in MemInfo :
          LET bytes == get_system_memory_bytes(file)
              labels == <<<<"host", HOST_LABEL>>>>
              items == IF bytes.ok
                       THEN << <<metric_with_labels("mem.used", labels),
                                 [ts_ms |-> timestamp_ms, value |-> Whole(bytes.used_bytes)]>>,
                               <<metric_with_labels("mem.free", labels),
                                 [ts_ms |-> timestamp_ms, value |-> Whole(bytes.free_bytes)]>> >>
                       ELSE <<>>
          IN /\ signal' = [fn |-> "get_system_memory_bytes", ok |-> bytes.ok,
                           readable |-> file.readable /\ "MemTotal" \in DOMAIN file.lines]
             /\ series' = AppendedAll(series, items)
             /\ log' = LoggedAll(log, items)
    /\ ticks' = ticks + 1
    /\ UNCHANGED <<per_metric_capacity, vec_series, ret, vlog, threadVars, snapVars, otherVars,
                   cpuVars, diskVars, netVars, seen, crashed>>

(* CPU *)

CpuTimes(user, system, idle, iowait) ==
    [user |-> user, nice |-> 0, system |-> system, idle |-> idle, iowait |-> iowait,
     irq |-> 0, softirq |-> 0, steal |-> 0]

\* /proc/stat as one tick finds it: unreadable or without a "cpu" line, or
\* its "cpu" line and its "cpuN" lines
ProcStat ==
    { [have_total |-> FALSE, total |-> CpuTimes(0, 0, 0, 0), per_cpu |-> <<>>],
      [have_total |-> TRUE, total |-> CpuTimes(0, 0, 1, 0), per_cpu |-> <<CpuTimes(0, 0, 1, 0)>>],
      [have_total |-> TRUE, total |-> CpuTimes(2, 0, 0, 0),
       per_cpu |-> <<CpuTimes(1, 0, 1, 0), CpuTimes(1, 0, 0, 0)>>],
      [have_total |-> TRUE, total |-> CpuTimes(2, 1, 1, 1), per_cpu |-> <<CpuTimes(1, 1, 1, 1)>>],
      [have_total |-> TRUE, total |-> CpuTimes(0, 1, 0, 0), per_cpu |-> <<>>] }

active_time(t) == t.user + t.nice + t.system + t.irq + t.softirq + t.steal
total_time(t) == active_time(t) + t.idle + t.iowait

\* the percentage both CPU collectors compute from the readings a and b
cpu_percent(a, b) ==
    LET d_active == ClampedDelta(active_time(a), active_time(b))
        d_total == ClampedDelta(total_time(a), total_time(b))
    IN IF d_total = 0 THEN Whole(0) ELSE Fraction(100 * d_active, d_total)

\* a get_cpu_total_percent that answers a failed read with 0.0
get_cpu_total_percent_ZeroOnFailure(file) ==
    IF ~file.have_total
    THEN [ret |-> Whole(0), last_total |-> last_total, initialized |-> total_initialized]
    ELSE IF ~total_initialized
    THEN [ret |-> Whole(0), last_total |-> file.total, initialized |-> TRUE]
    ELSE [ret |-> cpu_percent(last_total, file.total),
          last_total |-> file.total, initialized |-> TRUE]

\* get_cpu_total_percent: what it returns and its static variables afterwards
get_cpu_total_percent_FromBoot(file) ==
    IF ~file.have_total
    THEN [ret |-> Whole(-1), last_total |-> last_total, initialized |-> total_initialized]
    ELSE [ret |-> cpu_percent(last_total, file.total),
          last_total |-> file.total, initialized |-> TRUE]

get_cpu_total_percent(file) ==
    IF ~file.have_total
    THEN [ret |-> Whole(-1), last_total |-> last_total, initialized |-> total_initialized]
    ELSE IF ~total_initialized
    THEN [ret |-> Whole(0), last_total |-> file.total, initialized |-> TRUE]
    ELSE [ret |-> cpu_percent(last_total, file.total),
          last_total |-> file.total, initialized |-> TRUE]

\* out_core_pct.resize(n, 0.0)
Resize(buffer, n) ==
    [i \in 1..n |-> IF i <= Len(buffer) THEN buffer[i] ELSE Whole(0)]

\* what last_per_cpu[i] may be read as when i is past the end of the vector,
\* if the read does not end the process
PastTheEnd == {CpuTimes(0, 0, 0, 0), CpuTimes(3, 0, 0, 0)}

\* get_cpu_core_percent: what it returns, the buffer and its static variables
\* afterwards; stale is what a read past the end of last_per_cpu yields
get_cpu_core_percent(file, stale) ==
    LET cur_per_cpu == file.per_cpu
        resized == Resize(core_percent_buffer, Len(cur_per_cpu))
        Last(i) == IF i <= Len(last_per_cpu) THEN last_per_cpu[i] ELSE stale
    IN IF ~file.have_total \/ cur_per_cpu = <<>>
       THEN [ok |-> FALSE, out_core_pct |-> core_percent_buffer,
             last_per_cpu |-> last_per_cpu, initialized |-> core_initialized,
             past_end |-> FALSE]
       ELSE IF ~core_initialized
       THEN [ok |-> TRUE, out_core_pct |-> resized,
             last_per_cpu |-> cur_per_cpu, initialized |-> TRUE, past_end |-> FALSE]
       ELSE [ok |-> TRUE,
             out_core_pct |-> [i \in 1..Len(cur_per_cpu) |-> cpu_percent(Last(i), cur_per_cpu[i])],
             last_per_cpu |-> cur_per_cpu, initialized |-> TRUE,
             past_end |-> Len(cur_per_cpu) > Len(last_per_cpu)]

\* MemoryStore::append_vector as a function of the vector series map
AppendedVector(m, metric, x) ==
    LET e == TryEmplace(m, metric, DefaultSampleVec)
    IN [e EXCEPT ![metric].ring = RingAppend(e[metric].ring, x)]

\* sample_cpu_metrics.  The two collectors read /proc/stat one after the
\* other.  A read past the end of last_per_cpu either ends the process,
\* after the total was appended, or yields some value.
sample_cpu_metrics ==
    /\ ~crashed /\ ticks < MaxTicks
    /\ \E timestamp_ms \in Stamps, file1 \in ProcStat, file2 \in ProcStat :
       \E stale \in PastTheEnd, fault \in BOOLEAN :
          LET labels == <<<<"host", HOST_LABEL>>>>
              t == get_cpu_total_percent(file1)
              c == get_cpu_core_percent(file2, stale)
              total_cpu_selector == metric_with_labels("cpu.total_pct", labels)
              core_cpu_selector == metric_with_labels("cpu.core_pct", labels)
              x == [ts_ms |-> timestamp_ms, value |-> t.ret]
              v == [ts_ms |-> timestamp_ms, vals |-> c.out_core_pct]
              died == c.past_end /\ fault
          IN \* stale and fault are chosen only where the read past the end is
             /\ c.past_end \/ (~fault /\ stale = CpuTimes(0, 0, 0, 0))
             /\ last_total' = t.last_total
             /\ total_initialized' = t.initialized
             /\ IF t.ret.n >= 0
                THEN series' = Appended(series, total_cpu_selector, x)
                     /\ log' = Logged(log, total_cpu_selector, x)
                ELSE UNCHANGED <<series, log>>
             /\ crashed' = died
             /\ IF died
                THEN UNCHANGED <<last_per_cpu, core_initialized, core_percent_buffer,
                                 vec_series, vlog>>
                ELSE /\ last_per_cpu' = c.last_per_cpu
                     /\ core_initialized' = c.initialized
                     /\ core_percent_buffer' = c.out_core_pct
                     /\ IF c.ok
                        THEN vec_series' = AppendedVector(vec_series, core_cpu_selector, v)
                             /\ vlog' = Logged(vlog, core_cpu_selector, v)
                        ELSE UNCHANGED <<vec_series, vlog>>
             /\ seen' = IF file1.have_total THEN Seen("cpu", 0, file1.total, FALSE)
                        ELSE Failed("cpu")
             /\ signal' = [fn |-> "get_cpu_percent", total |-> t.ret, ok |-> c.ok,
                           died |-> died, readable |-> file1.have_total,
                           core_readable |-> file2.have_total /\ file2.per_cpu # <<>>,
                           reset |-> total_initialized /\ file1.have_total
                                     /\ total_time(file1.total) < total_time(last_total)]
    /\ ticks' = ticks + 1
    /\ UNCHANGED <<per_metric_capacity, ret, threadVars, snapVars, otherVars, diskVars, netVars>>

CollectorInit ==
    /\ last_total = CpuTimes(0, 0, 0, 0)
    /\ total_initialized = FALSE
    /\ last_per_cpu = <<>>
    /\ core_initialized = FALSE
    /\ prev_values = <<>>
    /\ disk_initialized = FALSE
    /\ disk_prev_time = 0
    /\ prev = <<>>
    /\ net_initialized = FALSE
    /\ net_prev_time = 0
    /\ core_percent_buffer = <<>>
    /\ disk_io_buffer = <<>>
    /\ interface_rates = <<>>
    /\ ticks = 0
    /\ signal = [fn |-> "none"]
    /\ seen = [c \in {"cpu", "disk", "net"} |->
                [n |-> 0, time_now |-> 0, reading |-> <<>>, zero_dt |-> FALSE,
                 failed |-> FALSE, earlier |-> <<>>]]
    /\ crashed = FALSE

-----------------------------------------------------------------------------
(* The process differ (procmon): two snapshots of the process table, the   *)
(* rows computed from them and their ranking.  Of a ProcSample the tick    *)
(* counters and the context switches are kept, of a ProcRow the pid and    *)
(* the values computed from them.                                          *)

MaxPid == 3
MaxProcTicks == 2
MaxJiffies == 3
MaxHz == 2
MaxLimit == 2

Pids == 1..MaxPid

ProcSample(utime, stime, ctx) ==
    [utime_ticks |-> utime, stime_ticks |-> stime, ctx_switches |-> ctx]

ProcSnapshot(total, by_pid, hz) ==
    [total_jiffies |-> total, by_pid |-> by_pid, hz |-> hz]

\* procmon::ProcSnapshot{}: no process, hz = 100
DefaultProcSnapshot == ProcSnapshot(0, <<>>, 100)

\* clk_tck(): sysconf(_SC_CLK_TCK), or 100 if that is not positive
ClockTicks == 1..MaxHz

\* the samples read_stat and read_status fill in at two successive reads:
\* between them a counter of a pid may have grown, or fallen (the pid was
\* given to another process)
EarlierSamples == {ProcSample(u, 1 - u, u) : u \in 0..1}
LaterSamples == {ProcSample(u, MaxProcTicks - u, u) : u \in 0..MaxProcTicks}

Tables(samples) == UNION {[S -> samples] : S \in SUBSET Pids}

\* double > double on exact fractions with positive denominators
Greater(p, q) == p.n * q.d > q.n * p.d

\* dt without the clamp of a non-positive difference of the totals
proc_dt_Unclamped(prv, cur) ==
    Fraction(cur.total_jiffies - prv.total_jiffies, cur.hz)

\* dt as a number of ticks, not divided by the tick rate
proc_dt_InTicks(prv, cur) ==
    Fraction(IF cur.total_jiffies > prv.total_jiffies
             THEN cur.total_jiffies - prv.total_jiffies
             ELSE 1, 1)

\* dt: the difference of the aggregate tick totals over the tick rate, one
\* tick if the total has not grown; if (dt <= 0.0) dt = 1.0
proc_dt(prv, cur) ==
    LET dt == Fraction(IF cur.total_jiffies > prv.total_jiffies
                       THEN cur.total_jiffies - prv.total_jiffies
                       ELSE 1, cur.hz)
    IN IF dt.n <= 0 THEN Whole(1) ELSE dt

\* a row for a new process that shows its cumulative ticks as a percentage
NewProcRow_Cumulative(pid, b, hz) ==
    [pid |-> pid,
     cpu_time_s |-> Fraction(b.utime_ticks + b.stime_ticks, hz),
     cpu_pct |-> Fraction(100 * (b.utime_ticks + b.stime_ticks), hz),
     wakeups_per_s |-> Whole(0)]

\* the row of a pid that prev does not have
NewProcRow(pid, b, hz) ==
    [pid |-> pid,
     cpu_time_s |-> Fraction(b.utime_ticks + b.stime_ticks, hz),
     cpu_pct |-> Whole(0),
     wakeups_per_s |-> Whole(0)]

\* int64 difference, then if (d < 0) d = 0
ClampedTicks(a, b) == IF b - a < 0 THEN 0 ELSE b - a

\* dut + dst: each component clamped on its own
DeltaTicks(a, b) ==
    ClampedTicks(a.utime_ticks, b.utime_ticks) + ClampedTicks(a.stime_ticks, b.stime_ticks)

\* the row of a pid that both snapshots have
DiffProcRow(pid, a, b, hz, dt) ==
    LET dproc_s == Fraction(DeltaTicks(a, b), hz)
        dcs == ClampedTicks(a.ctx_switches, b.ctx_switches)
    IN [pid |-> pid,
        cpu_time_s |-> Fraction(b.utime_ticks + b.stime_ticks, hz),
        cpu_pct |-> IF dt.n > 0
                    THEN Fraction(100 * dproc_s.n * dt.d, dproc_s.d * dt.n)
                    ELSE Whole(0),
        wakeups_per_s |-> IF dt.n > 0 THEN Fraction(dcs * dt.d, dt.n) ELSE Whole(0)]

RECURSIVE ProcRowsOf(_, _, _, _)
ProcRowsOf(prv, cur, dt, order) ==
    IF order = <<>> THEN <<>>
    ELSE LET pid == Head(order)
             b == cur.by_pid[pid]
         IN <<IF pid \notin DOMAIN prv.by_pid
              THEN NewProcRow(pid, b, cur.hz)
              ELSE DiffProcRow(pid, prv.by_pid[pid], b, cur.hz, dt)>>
            \o ProcRowsOf(prv, cur, dt, Tail(order))

\* a compute_proc_rows that has rows only for the pids prev has too
compute_proc_rows_KnownOnly(prv, cur, order) ==
    IF prv.hz <= 0 \/ cur.hz <= 0 THEN <<>>
    ELSE LET known(pid) == pid \in DOMAIN prv.by_pid
         IN ProcRowsOf(prv, cur, proc_dt(prv, cur), SelectSeq(order, known))

\* procmon::compute_proc_rows; order is the order in which the loop meets
\* the entries of the unordered_map cur.by_pid
compute_proc_rows(prv, cur, order) ==
    IF prv.hz <= 0 \/ cur.hz <= 0 THEN <<>>
    ELSE ProcRowsOf(prv, cur, proc_dt(prv, cur), order)

\* an insertion that puts a row in front of the rows of equal cpu_pct
RECURSIVE InsertRow_BeforeEqual(_, _)
InsertRow_BeforeEqual(sorted, x) ==
    IF sorted = <<>> THEN <<x>>
    ELSE IF ~Greater(Head(sorted).cpu_pct, x.cpu_pct) THEN <<x>> \o sorted
    ELSE <<Head(sorted)>> \o InsertRow_BeforeEqual(Tail(sorted), x)

\* std::stable_sort with x.cpu_pct > y.cpu_pct: a row goes in front of the
\* first row it is greater than, behind every row it is not greater than
RECURSIVE InsertRow(_, _)
InsertRow(sorted, x) ==
    IF sorted = <<>> THEN <<x>>
    ELSE IF Greater(x.cpu_pct, Head(sorted).cpu_pct) THEN <<x>> \o sorted
    ELSE <<Head(sorted)>> \o InsertRow(Tail(sorted), x)

RECURSIVE StableSort(_)
StableSort(rows) ==
    IF rows = <<>> THEN <<>>
    ELSE InsertRow(StableSort(SubSeq(rows, 1, Len(rows) - 1)), rows[Len(rows)])

\* procmon::top_by_cpu
top_by_cpu(prv, cur, limit, order) ==
    LET rows == StableSort(compute_proc_rows(prv, cur, order))
    IN IF limit # 0 /\ Len(rows) > limit THEN SubSeq(rows, 1, limit) ELSE rows

ProcInit ==
    /\ previous_process_snapshot = DefaultProcSnapshot
    /\ current_process_snapshot = DefaultProcSnapshot
    /\ have_previous_process_snapshot = FALSE
    /\ proc_rows = [op |-> "none"]

\* the sampler has read the process table twice
ProcReadTwice ==
    /\ \E hz \in ClockTicks, total \in 0..MaxJiffies,
          a \in Tables(EarlierSamples), b \in Tables(LaterSamples) :
          /\ previous_process_snapshot = ProcSnapshot(1, a, hz)
          /\ current_process_snapshot = ProcSnapshot(total, b, hz)
    /\ have_previous_process_snapshot = TRUE
    /\ proc_rows = [op |-> "none"]

\* compute_proc_rows(previous_snapshot, current_snapshot), called once for
\* a pair of reads
ComputeProcRows ==
    /\ proc_rows.op = "none"
    /\ \E order \in KeyOrders(DOMAIN current_process_snapshot.by_pid) :
          proc_rows' = [op |-> "compute_proc_rows", order |-> order,
                        val |-> compute_proc_rows(previous_process_snapshot,
                                                  current_process_snapshot, order)]
    /\ UNCHANGED <<previous_process_snapshot, current_process_snapshot,
                   have_previous_process_snapshot>>
    /\ UNCHANGED <<storeVars, threadVars, snapVars, mainVars, publishVars, pollerVars, collectorVars>>

\* top_by_cpu(previous_snapshot, current_snapshot, limit), called once for a
\* pair of reads
TopByCpu ==
    /\ proc_rows.op = "none"
    /\ \E limit \in 0..MaxLimit, order \in KeyOrders(DOMAIN current_process_snapshot.by_pid) :
          proc_rows' = [op |-> "top_by_cpu", order |-> order, limit |-> limit,
                        val |-> top_by_cpu(previous_process_snapshot,
                                           current_process_snapshot, limit, order)]
    /\ UNCHANGED <<previous_process_snapshot, current_process_snapshot,
                   have_previous_process_snapshot>>
    /\ UNCHANGED <<storeVars, threadVars, snapVars, mainVars, publishVars, pollerVars, collectorVars>>

-----------------------------------------------------------------------------
(* sample_process_metrics and the /api/processes handler *)

MaxProcCalls == 3   \* calls of sample_process_metrics in one behaviour

kProcessTableLimit == 128

\* what read_proc_snapshot finds in /proc at a call: a total of jiffies and
\* a table of some of the pids 1 and 2
ProcReads ==
    { ProcSnapshot(total, table, MaxHz) :
        total \in 1..2,
        table \in UNION {[S -> {ProcSample(0, 1, 0), ProcSample(1, 1, 1)}] :
                            S \in SUBSET {1, 2}} }

\* a ProcSnapshot that was moved from: its scalars are copied, its by_pid
\* is in an unspecified state
MovedFromSnapshot(snap) == {snap, [snap EXCEPT !.by_pid = <<>>]}

\* what read_proc_snapshot leaves in its argument when it returns false:
\* by_pid cleared and hz set, total_jiffies read or not
FailedRead(snap) ==
    {[snap EXCEPT !.by_pid = <<>>, !.hz = MaxHz],
     [snap EXCEPT !.by_pid = <<>>, !.hz = MaxHz, !.total_jiffies = 1]}

Publishes_Always(have_previous_snapshot) == TRUE

\* sample_process_metrics: if (have_previous_snapshot)
Publishes(have_previous_snapshot) == have_previous_snapshot

PublishInit ==
    proc_seen = [calls |-> 0, n |-> 0, reading |-> DefaultProcSnapshot, failed |-> FALSE]

\* sample_process_metrics(store, previous_process_snapshot,
\*                        current_process_snapshot, have_previous_process_snapshot)
SampleProcessMetrics ==
    /\ proc_seen.calls < MaxProcCalls
    /\ \/ \E left \in FailedRead(current_process_snapshot) :
             /\ current_process_snapshot' = left
             /\ proc_seen' = [proc_seen EXCEPT !.calls = @ + 1, !.failed = TRUE]
             /\ UNCHANGED <<previous_process_snapshot, have_previous_process_snapshot,
                            snapshots, puts, ret>>
       \/ \E read \in ProcReads :
             /\ IF Publishes(have_previous_process_snapshot)
                THEN \E order \in KeyOrders(DOMAIN read.by_pid) :
                        put_snapshot("processes",
                                     serialize_process_rows(
                                        top_by_cpu(previous_process_snapshot, read,
                                                   kProcessTableLimit, order)))
                ELSE UNCHANGED <<snapshots, puts, ret>>
             /\ previous_process_snapshot' = read
             /\ current_process_snapshot' \in MovedFromSnapshot(read)
             /\ have_previous_process_snapshot' = TRUE
             /\ proc_seen' = [calls |-> proc_seen.calls + 1, n |-> proc_seen.n + 1,
                              reading |-> read, failed |-> FALSE]
    /\ UNCHANGED <<per_metric_capacity, series, vec_series, log, vlog, proc_rows>>
    /\ UNCHANGED <<threadVars, mainVars, pollerVars, collectorVars>>

\* GET /api/processes: the published table, or an empty array
ApiProcesses ==
    /\ LET snapshot == get_snapshot("processes")
       IN ret' = [op |-> "api_processes",
                  val |-> IF snapshot = JsonNull THEN JsonArray(<<>>) ELSE snapshot]
    /\ UNCHANGED <<per_metric_capacity, series, vec_series, log, vlog>>
    /\ UNCHANGED <<threadVars, snapVars, otherVars, collectorVars>>

-----------------------------------------------------------------------------
(* main and the sampler thread's loop *)

MaxIterations == 2  \* iterations of the sampler loop in one behaviour

\* collect_system_info(): what the host says of itself when main starts
SystemFacts ==
    { [cpu_cores |-> c, mem_total_bytes |-> 3, hostname |-> HOST_LABEL,
       os_name |-> "Linux", kernel_version |-> "6"] : c \in 1..2 }

\* the keys a client passes to /api/info: none, the one main wrote, another
InfoKeys == {"", "system", "other"}

put_metadata_Dropped(m, key, value) == m

\* MemoryStore::put_metadata: metadata_[key] = value
put_metadata(m, key, value) ==
    [k \in DOMAIN m \cup {key} |-> IF k = key THEN value ELSE m[k]]

\* MemoryStore::get_metadata: the value of the key, or json{} if there is none
get_metadata(m, key) == IF key \in DOMAIN m THEN m[key] ELSE JsonNull

\* MemoryStore::all_metadata: a copy of the whole map
all_metadata(m) == m

LoopCondition_Ignored(flag) == TRUE

\* while (running.load(std::memory_order_relaxed))
LoopCondition(flag) == flag

\* the calls of one iteration, in the order of the loop's body
TickCalls ==
    <<"sample_cpu_metrics", "sample_memory_metrics", "sample_disk_metrics",
      "sample_network_metrics", "sample_process_metrics">>

\* the series the first four calls append to (one of each call stands for
\* all the call writes; what the collectors compute is SamplerSpec's matter)
TickMetric ==
    [i \in 1..4 |-> metric_with_labels(<<"cpu.total_pct", "mem.used", "disk.read",
                                         "net.rx">>[i], <<<<"host", HOST_LABEL>>>>)]

MainInit ==
    /\ metadata = <<>>
    /\ meta_puts = <<>>
    /\ sampler_running = TRUE
    /\ main_pc = "cache_system_metadata"
    /\ sampler_pc = "unstarted"
    /\ tick_timestamp_ms = 0
    /\ iterations = 0
    /\ ran = <<>>
    /\ info = [status |-> 0]
    /\ server_ok = FALSE
    /\ cleared_at = [pc |-> "none", iterations |-> 0]

\* main: cache_system_metadata(store)
MainCacheSystemMetadata ==
    /\ main_pc = "cache_system_metadata"
    /\ \E system_info \in SystemFacts :
          /\ metadata' = put_metadata(metadata, "system", system_info)
          /\ meta_puts' = Append(meta_puts, <<"system", system_info>>)
    /\ main_pc' = "start_sampler"
    /\ UNCHANGED <<sampler_running, sampler_pc, tick_timestamp_ms, iterations, ran, info, server_ok, cleared_at>>
    /\ UNCHANGED <<storeVars, threadVars, snapVars, procVars, publishVars, pollerVars, collectorVars>>

\* main: start_sampler(store, sampler_running) starts the thread; bind_routes
\* and bind_static_frontend register the handlers, and main enters listen
MainStartSampler ==
    /\ main_pc = "start_sampler"
    /\ sampler_pc' = "while"
    /\ main_pc' = "listen"
    /\ UNCHANGED <<metadata, meta_puts, sampler_running, tick_timestamp_ms, iterations, ran, info,
                   server_ok, cleared_at>>
    /\ UNCHANGED <<storeVars, threadVars, snapVars, procVars, publishVars, pollerVars, collectorVars>>

\* GET /api/info, served while main is inside server.listen
ApiInfo ==
    /\ main_pc = "listen"
    /\ \E key \in InfoKeys :
          LET value == IF key = "" THEN all_metadata(metadata)
                       ELSE get_metadata(metadata, key)
          IN info' = IF value = JsonNull \/ value = <<>>
                     THEN [status |-> 400, key |-> key, body |-> "No key found"]
                     ELSE [status |-> 200, key |-> key, body |-> value]
    /\ UNCHANGED <<metadata, meta_puts, sampler_running, main_pc, sampler_pc, tick_timestamp_ms,
                   iterations, ran, server_ok, cleared_at>>
    /\ UNCHANGED <<storeVars, threadVars, snapVars, procVars, publishVars, pollerVars, collectorVars>>

\* main: server.listen returns, because the port could not be bound or the
\* server was stopped
MainListenReturns ==
    /\ main_pc = "listen"
    /\ \E ok \in BOOLEAN : server_ok' = ok
    /\ main_pc' = "clear"
    /\ UNCHANGED <<metadata, meta_puts, sampler_running, sampler_pc, tick_timestamp_ms, iterations,
                   ran, info, cleared_at>>
    /\ UNCHANGED <<storeVars, threadVars, snapVars, procVars, publishVars, pollerVars, collectorVars>>

\* main: sampler_running = false
MainClearFlag ==
    /\ main_pc = "clear"
    /\ sampler_running' = FALSE
    /\ cleared_at' = [pc |-> sampler_pc, iterations |-> iterations]
    /\ main_pc' = "join"
    /\ UNCHANGED <<metadata, meta_puts, sampler_pc, tick_timestamp_ms, iterations, ran, info,
                   server_ok>>
    /\ UNCHANGED <<storeVars, threadVars, snapVars, procVars, publishVars, pollerVars, collectorVars>>

\* main: sampler_thread.join() returns once the thread's function has, and
\* main returns
MainJoin ==
    /\ main_pc = "join"
    /\ sampler_pc = "returned"
    /\ main_pc' = "return"
    /\ UNCHANGED <<metadata, meta_puts, sampler_running, sampler_pc, tick_timestamp_ms, iterations,
                   ran, info, server_ok, cleared_at>>
    /\ UNCHANGED <<storeVars, threadVars, snapVars, procVars, publishVars, pollerVars, collectorVars>>

\* the sampler thread: the loop's condition, and with the flag set the
\* iteration's const auto timestamp_ms = now_ms()
SamplerWhile ==
    /\ sampler_pc = "while"
    /\ IF LoopCondition(sampler_running)
       THEN /\ iterations < MaxIterations
            /\ iterations' = iterations + 1
            /\ \E now \in Stamps : tick_timestamp_ms' = now
            /\ ran' = <<>>
            /\ sampler_pc' = TickCalls[1]
       ELSE /\ sampler_pc' = "returned"
            /\ UNCHANGED <<iterations, tick_timestamp_ms, ran>>
    /\ UNCHANGED <<metadata, meta_puts, sampler_running, main_pc, info, server_ok, cleared_at>>
    /\ UNCHANGED <<storeVars, threadVars, snapVars, procVars, publishVars, pollerVars, collectorVars>>

\* the sampler thread: one of sample_cpu_metrics, sample_memory_metrics,
\* sample_disk_metrics and sample_network_metrics, which appends to the store
\* unless its read failed
SamplerCollect ==
    /\ \E i \in 1..4 :
          /\ sampler_pc = TickCalls[i]
          /\ sampler_pc' = TickCalls[i + 1]
          /\ ran' = Append(ran, TickCalls[i])
          /\ \E ok \in BOOLEAN :
                LET x == [ts_ms |-> tick_timestamp_ms, value |-> Whole(0)]
                IN IF ok
                   THEN /\ series' = Appended(series, TickMetric[i], x)
                        /\ log' = Logged(log, TickMetric[i], x)
                   ELSE UNCHANGED <<series, log>>
    /\ UNCHANGED <<per_metric_capacity, vec_series, ret, vlog>>
    /\ UNCHANGED <<metadata, meta_puts, sampler_running, main_pc, tick_timestamp_ms, iterations,
                   info, server_ok, cleared_at>>
    /\ UNCHANGED <<threadVars, snapVars, procVars, publishVars, pollerVars, collectorVars>>

\* the sampler thread: sample_process_metrics, which publishes a table once
\* it has a previous snapshot to compare with, unless its read failed
SamplerProcesses ==
    /\ sampler_pc = TickCalls[5]
    /\ sampler_pc' = "sleep_for"
    /\ ran' = Append(ran, TickCalls[5])
    /\ \E ok \in BOOLEAN :
          IF ok
          THEN /\ IF have_previous_process_snapshot
                  THEN \E rows \in ProcessTables :
                          put_snapshot("processes", serialize_process_rows(rows))
                  ELSE UNCHANGED <<snapshots, puts, ret>>
               /\ have_previous_process_snapshot' = TRUE
          ELSE UNCHANGED <<snapshots, puts, ret, have_previous_process_snapshot>>
    /\ UNCHANGED <<per_metric_capacity, series, vec_series, log, vlog>>
    /\ UNCHANGED <<previous_process_snapshot, current_process_snapshot, proc_rows>>
    /\ UNCHANGED <<metadata, meta_puts, sampler_running, main_pc, tick_timestamp_ms, iterations,
                   info, server_ok, cleared_at>>
    /\ UNCHANGED <<threadVars, publishVars, pollerVars, collectorVars>>

\* the sampler thread: std::this_thread::sleep_for returns
SamplerSleep ==
    /\ sampler_pc = "sleep_for"
    /\ sampler_pc' = "while"
    /\ UNCHANGED <<metadata, meta_puts, sampler_running, main_pc, tick_timestamp_ms, iterations,
                   ran, info, server_ok, cleared_at>>
    /\ UNCHANGED <<storeVars, threadVars, snapVars, procVars, publishVars, pollerVars, collectorVars>>

SamplerThread == SamplerWhile \/ SamplerCollect \/ SamplerProcesses \/ SamplerSleep

-----------------------------------------------------------------------------
(* The UI's poller (web/app.js, makePoller) on the browser's event loop *)

MaxTimers == 5      \* calls of setTimeout in one behaviour

\* null, as the value of timer
NoTimer == 0

\* makePoller: let timer = null; let stopped = true; let inFlight = false.
\* pending is the set of the timers that were set and have neither fired
\* nor been cleared, next_timer the id the next setTimeout returns, tasks the
\* number of invocations of task that have not settled
makePoller ==
    [timer |-> NoTimer, stopped |-> TRUE, inFlight |-> FALSE,
     pending |-> {}, next_timer |-> 1, tasks |-> 0]

\* scheduleNext
scheduleNext(p) ==
    IF p.stopped THEN p
    ELSE [p EXCEPT !.timer = p.next_timer,
                   !.pending = @ \cup {p.next_timer},
                   !.next_timer = @ + 1]

Busy_Never(inFlight) == FALSE

\* run: if (inFlight)
Busy(inFlight) == inFlight

\* run, up to its await: the task is invoked, or the next timer is set
run(p) ==
    IF p.stopped THEN p
    ELSE IF Busy(p.inFlight) THEN scheduleNext(p)
    ELSE [p EXCEPT !.inFlight = TRUE, !.tasks = @ + 1]

\* run, from its finally on: the task has settled
settled(p) == scheduleNext([p EXCEPT !.inFlight = FALSE, !.tasks = @ - 1])

\* start()
start(p) == IF ~p.stopped THEN p ELSE run([p EXCEPT !.stopped = FALSE])

\* stop(): clearTimeout of a timer that has fired does nothing
stop(p) ==
    LET q == [p EXCEPT !.stopped = TRUE]
    IN IF q.timer # NoTimer
       THEN [q EXCEPT !.pending = @ \ {q.timer}, !.timer = NoTimer]
       ELSE q

PollerInit == poller = makePoller /\ poller_last = "makePoller"

\* a turn of the event loop leaves the poller in state q
PollerTurn(q) ==
    /\ q.next_timer <= MaxTimers + 1
    /\ poller' = q
    /\ UNCHANGED <<storeVars, threadVars, snapVars, procVars, mainVars, publishVars,
                   collectorVars>>

\* a handler calls start() (syncActiveTabPolling)
PollerStart ==
    /\ PollerTurn(start(poller))
    /\ poller_last' = "start"

\* a handler calls stop() (stopAllTabPollers)
PollerStop ==
    /\ PollerTurn(stop(poller))
    /\ poller_last' = "stop"

\* a pending timer fires and the event loop calls run
TimerFires ==
    /\ \E id \in poller.pending : PollerTurn(run([poller EXCEPT !.pending = @ \ {id}]))
    /\ poller_last' = "timer"

\* the promise of an invocation of task settles (fulfilled or rejected)
TaskSettles ==
    /\ poller.tasks > 0
    /\ PollerTurn(settled(poller))
    /\ poller_last' = "settled"

-----------------------------------------------------------------------------
(* Properties of the store *)

LastN(s, n) == SubSeq(s, Len(s) - n + 1, Len(s))
Retained(l, key) == LastN(LogOf(l, key), Min(Len(LogOf(l, key)), per_metric_capacity))
InWindow(s, from_ms, to_ms) ==
    LET Test(x) == from_ms <= x.ts_ms /\ x.ts_ms <= to_ms IN SelectSeq(s, Test)
Range(s) == {s[i] : i \in 1..Len(s)}

\* C1: a series of capacity C >= 1 retains exactly the last min(N, C) of the N
\* samples appended to it, in append order, and its size never exceeds C.
C1_RingEviction ==
    /\ \A k \in DOMAIN series :
          LET r == series[k].ring
          IN /\ r.cap >= 1
             /\ r.size <= r.cap
             /\ r.size = Min(Len(LogOf(log, k)), r.cap)
             /\ RingSnapshot(r) = LastN(LogOf(log, k), r.size)
    /\ \A k \in DOMAIN vec_series :
          LET r == vec_series[k].ring
          IN /\ r.cap >= 1
             /\ r.size <= r.cap
             /\ r.size = Min(Len(LogOf(vlog, k)), r.cap)
             /\ RingSnapshot(r) = LastN(LogOf(vlog, k), r.size)

\* more samples were appended to a series of capacity 2 than it holds
C1_Witness ==
    \E k \in DOMAIN series :
       /\ series[k].ring.cap = 2
       /\ Len(LogOf(log, k)) > 2
       /\ log[k][2].ts_ms # log[k][3].ts_ms

\* C2: a range query returns exactly the retained samples with
\* from_ms <= ts_ms <= to_ms, each once, oldest first.
C2_RangeInclusive ==
    /\ \A k \in Keys :
          LET kept == Retained(log, k)
              vkept == Retained(vlog, k)
          IN \A from_ms \in Bounds, to_ms \in Bounds :
                /\ QueryResult(k, from_ms, to_ms) = InWindow(kept, from_ms, to_ms)
                /\ QueryVectorResult(k, from_ms, to_ms) = InWindow(vkept, from_ms, to_ms)
    /\ ret.op = "query" =>
          ret.val = InWindow(Retained(log, ret.key), ret.from_ms, ret.to_ms)
    /\ ret.op = "query_vector" =>
          ret.val = InWindow(Retained(vlog, ret.key), ret.from_ms, ret.to_ms)

\* samples at 1, 2, 3 are retained and a query over [2, 2] returned the one at 2
C2_Witness ==
    /\ ret.op = "query"
    /\ ret.from_ms = 2 /\ ret.to_ms = 2
    /\ Len(ret.val) = 1
    /\ ret.key \in DOMAIN series
    /\ {x.ts_ms : x \in Range(RingSnapshot(series[ret.key].ring))} = {1, 2, 3}

\* C4: selectors of the same metric and label set name the same series, in
\* whatever order the labels were rendered: what was appended under one
\* rendering is returned by a query under the other.
C4_SelectorEquality ==
    \A k1 \in Keys, k2 \in Keys :
       SameSeries(k1, k2) => Range(Retained(log, k1)) \subseteq Range(QueryResult(k2, 0, 4))

\* C10: a query for a selector that has no series returns the empty sequence
C10_UnknownSelector ==
    /\ \A k \in Keys \ DOMAIN series :
          \A from_ms \in Bounds, to_ms \in Bounds : QueryResult(k, from_ms, to_ms) = <<>>
    /\ \A k \in Keys \ DOMAIN vec_series :
          \A from_ms \in Bounds, to_ms \in Bounds : QueryVectorResult(k, from_ms, to_ms) = <<>>
    /\ (ret.op = "query" /\ ret.key \notin DOMAIN series) => ret.val = <<>>
    /\ (ret.op = "query_vector" /\ ret.key \notin DOMAIN vec_series) => ret.val = <<>>

\* a query for an unknown selector returned while another series held samples
C10_Witness ==
    /\ ret.op = "query"
    /\ ret.key \notin DOMAIN series
    /\ ret.val = <<>>
    /\ \E k \in DOMAIN series : series[k].ring.size > 0

-----------------------------------------------------------------------------
\* every sample a query handed back is one that was passed to append for
\* that selector: no field of it is another sample's, or a default's
NoTornSample ==
    \A t \in Readers : \A i \in 1..Len(out[t].val) :
        <<out[t].key, out[t].val[i]>> \in passed

vars == <<storeVars, threadVars, snapVars, otherVars, collectorVars>>

Init ==
    StoreInit /\ ThreadInit /\ SnapshotInit /\ ProcInit /\ MainInit /\ PublishInit /\ PollerInit
    /\ CollectorInit

\* the store driven by one caller at a time
Next ==
    \/ SamplerAppend
    \/ SamplerAppendVector
    \/ ApiQuery
    \/ ApiExport
    \/ ApiMetrics

Spec == Init /\ [][Next]_vars

\* the sampler thread calling the collectors
SamplerNext ==
    \/ sample_cpu_metrics
    \/ sample_memory_metrics
    \/ sample_disk_metrics
    \/ sample_network_metrics

\* a store of two-slot rings under the sampler
SamplerSpecInit == Init /\ per_metric_capacity = 2

SamplerSpec == SamplerSpecInit /\ [][SamplerNext]_vars

\* the store called by several threads at once
ThreadNext ==
    \E t \in Threads :
       \/ AppendCall(t)
       \/ QueryCall(t)
       \/ Proceed(t)

\* a store of one-slot rings: the second append of a thread overwrites the first
ThreadSpecInit == Init /\ per_metric_capacity = 1

ThreadSpec == ThreadSpecInit /\ [][ThreadNext]_vars

\* every thread that can take a step of its call is eventually scheduled
FairThreadSpec == ThreadSpec /\ \A t \in Threads : WF_vars(Proceed(t))

\* C3: with appends and queries running on several threads at once, every
\* call that has started comes to its end (no deadlock), and no query hands
\* back a partially written sample.
C3_ConcurrentAppendQuery ==
    /\ []NoTornSample
    /\ \A t \in Threads : (pc[t] # "idle") ~> (pc[t] = "idle")

\* a query holds the lock of a full one-slot series and has its sample,
\* while the appending thread of that series waits to overwrite the slot
C3_Witness ==
    \E r \in Readers, w \in Writers :
        /\ pc[r] = "q_unlock" /\ pc[w] = "a_lock"
        /\ out[r].key = arg[w].key /\ sp[w] = sp[r]
        /\ Len(out[r].val) = 1 /\ per_metric_capacity = 1
        /\ out[r].val[1] # arg[w].x

-----------------------------------------------------------------------------
(* Properties of the collectors *)

Max0(x) == IF x > 0 THEN x ELSE 0
NonNegative(q) == q.n >= 0 /\ q.d > 0
SamePerSecond(q, amount, ms) == q.d = ms /\ q.n = amount * 1000
Sampled == ticks' = ticks + 1

\* the sum over the lines of one device of max(0, b - a)
RECURSIVE SumOfDeltas(_, _, _, _)
SumOfDeltas(a, b, names, field) ==
    IF names = {} THEN 0
    ELSE LET n == CHOOSE x \in names : TRUE
         IN Max0(b[n][field] - a[n][field]) + SumOfDeltas(a, b, names \ {n}, field)

\* the rates of a disk tick that reads b, ms after a was read
DiskRates(a, b, ms, rates) ==
    LET both == DOMAIN a \cap DOMAIN b IN
    /\ DOMAIN rates = {base_device_name(n) : n \in both}
    /\ \A key \in DOMAIN rates :
          LET names == {n \in both : base_device_name(n) = key} IN
          /\ SamePerSecond(rates[key].bytes_read_per_s,
                           512 * SumOfDeltas(a, b, names, "bytes_read"), ms)
          /\ SamePerSecond(rates[key].bytes_written_per_s,
                           512 * SumOfDeltas(a, b, names, "bytes_written"), ms)

\* the rates of a network tick that reads b, ms after a was read
NetRates(a, b, ms, rates) ==
    /\ DOMAIN rates = DOMAIN a \cap DOMAIN b
    /\ \A iface \in DOMAIN rates :
          /\ SamePerSecond(rates[iface].rx_bytes_per_s,
                           Max0(b[iface].rx_bytes - a[iface].rx_bytes), ms)
          /\ SamePerSecond(rates[iface].tx_bytes_per_s,
                           Max0(b[iface].tx_bytes - a[iface].tx_bytes), ms)

\* the percentage of the readings a and b
CpuPercent(a, b, pct) ==
    LET d_active == Max0(active_time(b) - active_time(a))
        d_total == Max0(total_time(b) - total_time(a))
    IN IF d_total = 0 THEN pct.n = 0
       ELSE pct.n * d_total = 100 * d_active * pct.d

\* the cores that had a reading before the call and have one after it
CoresOfBoth == 1..Min(Len(last_per_cpu), Len(last_per_cpu'))

NoNegativeValue ==
    /\ \A k \in DOMAIN disk_io_buffer :
          NonNegative(disk_io_buffer[k].bytes_read_per_s)
          /\ NonNegative(disk_io_buffer[k].bytes_written_per_s)
    /\ \A k \in DOMAIN interface_rates :
          NonNegative(interface_rates[k].rx_bytes_per_s)
          /\ NonNegative(interface_rates[k].tx_bytes_per_s)
    /\ \A i \in DOMAIN core_percent_buffer : NonNegative(core_percent_buffer[i])
    /\ \A k \in DOMAIN log : \A i \in DOMAIN log[k] : NonNegative(log[k][i].value)
    /\ \A k \in DOMAIN vlog : \A i \in DOMAIN vlog[k] :
          \A j \in DOMAIN vlog[k][i].vals : NonNegative(vlog[k][i].vals[j])

ClampedDeltaStep ==
    /\ (Sampled /\ signal'.fn = "get_disk_io" /\ signal'.divided)
          => DiskRates(prev_values, prev_values', disk_prev_time' - disk_prev_time,
                       disk_io_buffer')
    /\ (Sampled /\ signal'.fn = "get_net_stats" /\ signal'.divided)
          => NetRates(prev, prev', net_prev_time' - net_prev_time, interface_rates')
    /\ (Sampled /\ signal'.fn = "get_cpu_percent" /\ total_initialized /\ signal'.readable)
          => CpuPercent(last_total, last_total', signal'.total)
    /\ (Sampled /\ signal'.fn = "get_cpu_percent" /\ core_initialized /\ signal'.ok
        /\ ~signal'.died)
          => \A i \in CoresOfBoth :
                CpuPercent(last_per_cpu[i], last_per_cpu'[i], core_percent_buffer'[i])

\* C5: the delta a collector uses for two consecutive readings a, b of a
\* counter is max(0, b - a), for the CPU total, every CPU core, every disk
\* device and every network interface and direction; no rate or percentage
\* held by the sampler or appended to the store is negative.
C5_CounterDelta == []NoNegativeValue /\ [][ClampedDeltaStep]_vars

\* a disk tick has found a counter below its baseline and emitted a zero rate
C5_Witness ==
    /\ signal.fn = "get_disk_io" /\ signal.reset
    /\ \E key \in DOMAIN disk_io_buffer :
          disk_io_buffer[key].bytes_read_per_s.n = 0
          /\ disk_io_buffer[key].bytes_written_per_s.n = 0

FirstTickStep ==
    /\ (seen.disk.n = 0 /\ seen'.disk.n = 1)
          => disk_io_buffer' = <<>> /\ log' = log
    /\ (seen.net.n = 0 /\ seen'.net.n = 1)
          => interface_rates' = <<>> /\ log' = log
    /\ (seen.disk.n = 1 /\ seen'.disk.n = 2 /\ seen'.disk.time_now > seen.disk.time_now)
          => \A name \in DOMAIN seen.disk.reading \cap DOMAIN seen'.disk.reading :
                base_device_name(name) \in DOMAIN disk_io_buffer'
    /\ (seen.net.n = 1 /\ seen'.net.n = 2 /\ seen'.net.time_now > seen.net.time_now)
          => \A iface \in DOMAIN seen.net.reading \cap DOMAIN seen'.net.reading :
                iface \in DOMAIN interface_rates'

\* C6: the first successful call of get_disk_io and of get_net_stats emits no
\* rate; the second successful call, made with an advanced clock, emits a
\* rate for every key that both calls read.
C6_FirstTick == [][FirstTickStep]_vars

ZeroDtStep ==
    /\ (Sampled /\ signal'.fn = "get_disk_io" /\ signal'.ok /\ disk_initialized
        /\ seen'.disk.time_now <= disk_prev_time)
          => /\ ~signal'.divided /\ disk_io_buffer' = <<>> /\ log' = log
             /\ prev_values' = seen'.disk.reading
             /\ disk_prev_time' = seen'.disk.time_now
    /\ (Sampled /\ signal'.fn = "get_net_stats" /\ signal'.ok /\ net_initialized
        /\ seen'.net.time_now <= net_prev_time)
          => /\ ~signal'.divided /\ interface_rates' = <<>> /\ log' = log
             /\ prev' = seen'.net.reading
             /\ net_prev_time' = seen'.net.time_now
    /\ (Sampled /\ signal'.fn = "get_disk_io" /\ signal'.ok /\ seen.disk.zero_dt
        /\ seen'.disk.time_now > seen.disk.time_now)
          => DiskRates(seen.disk.reading, seen'.disk.reading,
                       seen'.disk.time_now - seen.disk.time_now, disk_io_buffer')
    /\ (Sampled /\ signal'.fn = "get_net_stats" /\ signal'.ok /\ seen.net.zero_dt
        /\ seen'.net.time_now > seen.net.time_now)
          => NetRates(seen.net.reading, seen'.net.reading,
                      seen'.net.time_now - seen.net.time_now, interface_rates')

\* C7: a disk or network tick that finds the clock at or before the stored
\* baseline timestamp divides nothing, emits no rate and stores the counters
\* and the time it read as the baseline; the next tick with an advanced
\* clock emits the rates computed against exactly that reading.
C7_ZeroDt == [][ZeroDtStep]_vars

\* a disk tick has found the clock not advanced and has stored what it read
C7_Witness ==
    /\ signal.fn = "get_disk_io" /\ signal.ok /\ seen.disk.zero_dt
    /\ seen.disk.n >= 2 /\ ~signal.divided
    /\ prev_values = seen.disk.reading /\ prev_values # <<>>
    /\ disk_io_buffer = <<>>

InPercentRange(pct) == 0 <= pct.n /\ pct.n <= 100 * pct.d

CpuPercentStep ==
    (Sampled /\ signal'.fn = "get_cpu_percent")
       => /\ (total_initialized /\ signal'.readable) => InPercentRange(signal'.total)
          /\ (core_initialized /\ signal'.ok /\ ~signal'.died)
                => \A i \in CoresOfBoth : InPercentRange(core_percent_buffer'[i])

\* C8: for two consecutive jiffy readings in any relation to each other, the
\* total and every per-core percentage lies in 0..100.
C8_CpuPercentBounds == [][CpuPercentStep]_vars

FailedReadStep ==
    /\ (Sampled /\ signal'.fn = "get_disk_io" /\ ~signal'.readable)
          => /\ ~signal'.ok
             /\ UNCHANGED <<series, log, vec_series, vlog>>
             /\ UNCHANGED <<prev_values, disk_initialized, disk_prev_time>>
    /\ (Sampled /\ signal'.fn = "get_net_stats" /\ ~signal'.readable)
          => /\ ~signal'.ok
             /\ UNCHANGED <<series, log, vec_series, vlog>>
             /\ UNCHANGED <<prev, net_initialized, net_prev_time>>
    /\ (Sampled /\ signal'.fn = "get_system_memory_bytes" /\ ~signal'.readable)
          => /\ ~signal'.ok
             /\ UNCHANGED <<series, log, vec_series, vlog>>
    /\ (Sampled /\ signal'.fn = "get_cpu_percent" /\ ~signal'.readable)
          => /\ signal'.total.n < 0
             /\ UNCHANGED <<series, log, last_total, total_initialized>>
    /\ (Sampled /\ signal'.fn = "get_cpu_percent" /\ ~signal'.core_readable)
          => /\ ~signal'.ok
             /\ UNCHANGED <<vec_series, vlog, last_per_cpu, core_initialized>>
    \* the successful tick after a failed one
    /\ (Sampled /\ signal'.fn = "get_disk_io" /\ signal'.ok /\ seen.disk.failed
        /\ seen.disk.n > 0 /\ seen'.disk.time_now > seen.disk.time_now)
          => DiskRates(seen.disk.reading, seen'.disk.reading,
                       seen'.disk.time_now - seen.disk.time_now, disk_io_buffer')
    \* (what get_net_stats keeps of its first reading is C6's matter: here the
    \* baseline is the one it holds)
    /\ (Sampled /\ signal'.fn = "get_net_stats" /\ signal'.ok /\ seen.net.failed
        /\ seen.net.n > 0 /\ seen'.net.time_now > net_prev_time)
          => NetRates(prev, seen'.net.reading,
                      seen'.net.time_now - net_prev_time, interface_rates')
    /\ (Sampled /\ signal'.fn = "get_cpu_percent" /\ signal'.readable /\ seen.cpu.failed
        /\ seen.cpu.n > 0)
          => CpuPercent(seen.cpu.reading, seen'.cpu.reading, signal'.total)

\* C9: on a tick where a collector's read fails, the collector signals the
\* failure, the sampler appends nothing for its metrics and the collector's
\* baseline stays as it was; the next tick whose read succeeds computes
\* against the baseline of the last successful tick.
C9_SourceUnavailable == [][FailedReadStep]_vars

\* a failed disk tick came after a successful one: nothing was appended and
\* the baseline is still what the successful tick read
C9_Witness ==
    /\ signal.fn = "get_disk_io" /\ ~signal.ok /\ seen.disk.failed
    /\ seen.disk.n > 0 /\ prev_values = seen.disk.reading /\ prev_values # <<>>
    /\ disk_prev_time = seen.disk.time_now
    /\ log = <<>>

-----------------------------------------------------------------------------
(* Properties of the key space *)

SeqRange(q) == {q[i] : i \in DOMAIN q}
NeverAppended(k) == LogOf(log, k) = <<>> /\ LogOf(vlog, k) = <<>>

\* C11: a selector under which nothing was ever appended is in no result of
\* list_series_keys, whatever queries were made for it.
C11_UnavailableNeverListed ==
    /\ \A k \in Keys : NeverAppended(k) =>
          \A selectors \in list_series_keys : k \notin SeqRange(selectors)
    /\ ret.op = "list_series_keys" =>
          \A k \in SeqRange(ret.val) : ~NeverAppended(k)

\* list_series_keys has returned the appended selectors, and a selector the
\* handlers query is not among them
C11_Witness ==
    /\ ret.op = "list_series_keys" /\ ret.val # <<>>
    /\ \E k \in ApiKeys : NeverAppended(k) /\ k \notin SeqRange(ret.val)

\* C12: after query(selector, ...) for a selector without a series, the
\* selector has a series.
C12_LazyCreationOnQueryMiss ==
    ret.op = "query" => ret.key \in DOMAIN series

\* a step keeps every series of the map, with the ring it was created with:
\* the ring is the same object (same capacity) and its content moves only
\* under the series' own mutex
KeptSeries(map, map2) ==
    \A k \in DOMAIN map :
        /\ k \in DOMAIN map2
        /\ map2[k].ring.cap = map[k].ring.cap
        /\ map[k].mtx = "free" => map2[k].ring = map[k].ring

SeriesKeptStep == KeptSeries(series, series') /\ KeptSeries(vec_series, vec_series')

\* the Series* a thread obtained under map_mtx_ points to a series of the map
ValidPointers == \A t \in Threads : sp[t] # "nullptr" => sp[t] \in DOMAIN series

CapacityByCases(keep, period) ==
    IF period = 0 THEN (IF keep = 0 THEN 1 ELSE keep)
    ELSE IF keep < period THEN 1 ELSE keep \div period

HasCapacity(s, cap) == s.ring.cap = cap /\ DOMAIN s.ring.buffer = 1..cap

\* C14: the capacity is max(1, keep div max(1, period)), at least 1 for
\* every keep and period, and every scalar and vector series has exactly it.
C14_Capacity ==
    /\ \A keep \in 0..MaxKeep, period \in 0..MaxPeriod :
          Capacity(keep, period) = CapacityByCases(keep, period)
    /\ \E keep \in 0..MaxKeep, period \in 0..MaxPeriod :
          per_metric_capacity = CapacityByCases(keep, period)
    /\ per_metric_capacity >= 1
    /\ \A k \in DOMAIN series : HasCapacity(series[k], per_metric_capacity)
    /\ \A k \in DOMAIN vec_series : HasCapacity(vec_series[k], per_metric_capacity)

\* a store of capacity 1, as a retention of 0 gives it, holds a scalar and a
\* vector series
C14_Witness ==
    /\ per_metric_capacity = 1 /\ Capacity(0, 0) = 1 /\ Capacity(0, MaxPeriod) = 1
    /\ DOMAIN series # {} /\ DOMAIN vec_series # {}

\* what a ring of the store's capacity holds after the appends of history h,
\* filtered to the window of a query
ContentAfter(h, from_ms, to_ms) ==
    InWindow(LastN(h, Min(Len(h), per_metric_capacity)), from_ms, to_ms)

Prefixes(h) == {SubSeq(h, 1, n) : n \in 0..Len(h)}

\* the query of thread t has its result in hand
QueryAnswered(t) == t \in Readers /\ calls[t] > 0 /\ pc[t] \in {"q_unlock", "idle"}

\* C15: a query running beside appends returns the filtered content of the
\* ring at one instant of the call: at the instant of the read the result is
\* the content after all appends completed so far, a miss is decided while
\* the series has no sample, and the returned result is the content after
\* some prefix of the appends.
C15_ConsistentSnapshot ==
    \A t \in Readers :
        /\ pc[t] = "q_unlock" =>
              out[t].val = ContentAfter(LogOf(log, arg[t].key), arg[t].from_ms, arg[t].to_ms)
        /\ (pc[t] = "q_unmap" /\ sp[t] = "nullptr") => LogOf(log, arg[t].key) = <<>>
        /\ QueryAnswered(t) =>
              \E h \in Prefixes(LogOf(log, arg[t].key)) :
                  out[t].val = ContentAfter(h, arg[t].from_ms, arg[t].to_ms)

\* a query has read the one sample of a series whose writer, in its second
\* call, waits for the series lock
C15_Witness ==
    \E r \in Readers, w \in Writers :
        /\ pc[r] = "q_unlock" /\ out[r].val # <<>> /\ arg[r].key = WriterKey(w)
        /\ pc[w] = "a_lock" /\ calls[w] = 2

-----------------------------------------------------------------------------
(* A thread that stops while it holds a series mutex *)

Staller == "w1"

\* the thread is inside the scope of std::scoped_lock lk(s->mtx)
HoldsSeries(t) == \E k \in DOMAIN series : series[k].mtx = t

\* every thread but the staller is always scheduled again; the staller is
\* scheduled for certain only while it holds no series mutex, so it may stop
\* for ever inside append's locked section
StallSpec ==
    /\ ThreadSpec
    /\ \A t \in Threads \ {Staller} : WF_vars(Proceed(t))
    /\ WF_vars(~HoldsSeries(Staller) /\ Proceed(Staller))

\* C16: while a thread holds the mutex of one series and makes no progress,
\* every append or query of another thread on a different series runs to
\* its end.
C16_IndependentSeries ==
    \A t \in Threads \ {Staller} :
        (pc[t] # "idle" /\ arg[t].key # WriterKey(Staller)) ~> (pc[t] = "idle")

\* the staller holds the mutex of its series in its first append while a
\* query holds the mutex of the other series and has read its sample
C16_Witness ==
    /\ pc[Staller] \in {"a_ts", "a_value", "a_unlock"} /\ calls[Staller] = 1
    /\ series[WriterKey(Staller)].mtx = Staller
    /\ \E r \in Readers :
          /\ pc[r] = "q_unlock" /\ arg[r].key # WriterKey(Staller)
          /\ series[arg[r].key].mtx = r /\ out[r].val # <<>>

-----------------------------------------------------------------------------
(* The mutexes of the store under every call that takes two of them in turn *)

\* one thread appending scalar and vector samples, two threads reading
LockThreads == {"w1", "r1", "r2"}

LockNext ==
    \E t \in LockThreads :
       \/ AppendCall(t)
       \/ AppendVectorCall(t)
       \/ QueryCall(t)
       \/ QueryVectorCall(t)
       \/ CountCall(t)
       \/ ListCall(t)
       \/ Proceed(t)
       \/ ProceedOther(t)

LockSpec == ThreadSpecInit /\ [][LockNext]_vars

\* the store mutexes thread t holds
HeldBy(t) ==
    (IF map_mtx = t THEN {<<"map_mtx_">>} ELSE {})
    \cup (IF vec_mtx = t THEN {<<"vec_mtx_">>} ELSE {})
    \cup {<<"series", k>> : k \in {j \in DOMAIN series : series[j].mtx = t}}
    \cup {<<"vec_series", k>> : k \in {j \in DOMAIN vec_series : vec_series[j].mtx = t}}

\* where a thread is about to read or write the ring of a scalar series, and
\* of a vector series
AtRing(t) == pc[t] \in {"a_ts", "a_value", "q_range", "c_size"}
AtVecRing(t) == pc[t] \in {"v_append", "qv_range"}

RingUnderLock ==
    \A t \in Threads :
        /\ AtRing(t) => series[sp[t]].mtx = t
        /\ AtVecRing(t) => vec_series[sp[t]].mtx = t

\* a step that takes a series mutex is made by a thread that holds neither
\* map-level mutex, and a step that changes a ring is made under its mutex
LockOrderStep ==
    /\ \A k \in DOMAIN series :
          /\ (series[k].mtx = "free" /\ series'[k].mtx # "free") =>
                 (map_mtx # series'[k].mtx /\ vec_mtx # series'[k].mtx)
          /\ series'[k].ring # series[k].ring => series[k].mtx # "free"
    /\ \A k \in DOMAIN vec_series :
          /\ (vec_series[k].mtx = "free" /\ vec_series'[k].mtx # "free") =>
                 (map_mtx # vec_series'[k].mtx /\ vec_mtx # vec_series'[k].mtx)
          /\ vec_series'[k].ring # vec_series[k].ring => vec_series[k].mtx # "free"
    /\ (vec_mtx = "free" /\ vec_mtx' # "free") => map_mtx # vec_mtx'
    /\ (map_mtx = "free" /\ map_mtx' # "free") => vec_mtx # map_mtx'

\* C17: no thread holds more than one store mutex; the map-level mutex is
\* released before a series mutex or the other map-level mutex is taken; a
\* ring is read or written only under its series mutex.
C17_TwoLevelLocking ==
    /\ [](\A t \in Threads : Cardinality(HeldBy(t)) <= 1)
    /\ []RingUnderLock
    /\ [][LockOrderStep]_vars

\* the three threads each hold one mutex: the writer a vector series, one
\* reader a scalar series it counts, the other vec_mtx_ in list_series_keys
C17_Witness ==
    /\ pc["w1"] = "v_append" /\ HeldBy("w1") = {<<"vec_series", VectorKey>>}
    /\ \E r, q \in Readers :
          /\ pc[r] = "c_size" /\ Cardinality(HeldBy(r)) = 1
          /\ pc[q] = "l_vunmap" /\ HeldBy(q) = {<<"vec_mtx_">>}

-----------------------------------------------------------------------------
(* Properties of the two namespaces *)

\* C18: every result of list_series_keys is the set union of the scalar and
\* the vector selectors: each of them once, a selector of both namespaces
\* included, and nothing else.
C18_ListIsUnion ==
    \A selectors \in list_series_keys :
        /\ SeqRange(selectors) = DOMAIN series \cup DOMAIN vec_series
        /\ \A i, j \in DOMAIN selectors : selectors[i] = selectors[j] => i = j

\* an append leaves the vector namespace as it is, an append_vector the
\* scalar one, and a query returns what the rings of its own namespace hold
NamespaceStep ==
    /\ (series' # series \/ log' # log) => UNCHANGED <<vec_series, vlog>>
    /\ (vec_series' # vec_series \/ vlog' # vlog) => UNCHANGED <<series, log>>
    /\ (ret'.op = "query" /\ ret' # ret) =>
          ret'.val = ContentAfter(LogOf(log, ret'.key), ret'.from_ms, ret'.to_ms)
    /\ (ret'.op = "query_vector" /\ ret' # ret) =>
          ret'.val = ContentAfter(LogOf(vlog, ret'.key), ret'.from_ms, ret'.to_ms)

OwnNamespace ==
    /\ ret.op = "query" => Range(ret.val) \subseteq Range(LogOf(log, ret.key))
    /\ ret.op = "query_vector" => Range(ret.val) \subseteq Range(LogOf(vlog, ret.key))

\* C19: for every selector, append changes nothing of the vector series and
\* append_vector nothing of the scalar series; query returns only samples
\* written by append and query_vector only samples written by append_vector,
\* also when the selector has a series in both namespaces.
C19_IndependentNamespaces == []OwnNamespace /\ [][NamespaceStep]_vars

\* a query under a selector that has a scalar and a vector series, each with
\* samples, has returned scalar samples
C19_Witness ==
    /\ ret.op = "query" /\ ret.val # <<>>
    /\ ret.key \in DOMAIN vec_series /\ LogOf(vlog, ret.key) # <<>>

-----------------------------------------------------------------------------
(* The snapshot cells beside the time series *)

SnapshotNext ==
    \/ PutSnapshot
    \/ GetSnapshot
    \/ SamplerAppend

SnapshotSpec == ThreadSpecInit /\ [][SnapshotNext]_vars

\* the blob of the last put_snapshot for key in history h, json() if none
RECURSIVE LastPut(_, _)
LastPut(h, key) ==
    IF h = <<>> THEN JsonNull
    ELSE IF h[Len(h)][1] = key THEN h[Len(h)][2]
    ELSE LastPut(SubSeq(h, 1, Len(h) - 1), key)

\* a get returns the blob of the last put for its key; a put changes the
\* cell of its key only, and no time series
SnapshotStep ==
    /\ (ret'.op = "get_snapshot" /\ ret' # ret) => ret'.val = LastPut(puts, ret'.key)
    /\ puts' # puts =>
          /\ \A k \in SnapshotKeys \ {puts'[Len(puts')][1]} :
                /\ (k \in DOMAIN snapshots') = (k \in DOMAIN snapshots)
                /\ k \in DOMAIN snapshots => snapshots'[k] = snapshots[k]
          /\ UNCHANGED <<series, vec_series, log, vlog>>

\* C20: get_snapshot(key) returns the blob of the most recently completed
\* put_snapshot for that key, the null value if there was none; a put
\* changes no other key's cell and no time series.
C20_SnapshotLastWriteWins ==
    /\ [](\A key \in SnapshotKeys : get_snapshot(key) = LastPut(puts, key))
    /\ [][SnapshotStep]_vars

\* two different blobs were put under one key, nothing under the other, and
\* a get has returned the second blob
C20_Witness ==
    /\ Len(puts) = 2 /\ puts[1][1] = puts[2][1] /\ puts[1][2] # puts[2][2]
    /\ ret.op = "get_snapshot" /\ ret.key = puts[2][1] /\ ret.val = puts[2][2]
    /\ \E k \in SnapshotKeys \ {ret.key} : get_snapshot(k) = JsonNull
    /\ DOMAIN series # {}

-----------------------------------------------------------------------------
(* The process differ applied to two reads of the process table *)

ProcNext ==
    \/ ComputeProcRows
    \/ TopByCpu

ProcSpecInit ==
    StoreInit /\ ThreadInit /\ SnapshotInit /\ ProcReadTwice /\ MainInit /\ PublishInit
    /\ PollerInit /\ CollectorInit
    /\ per_metric_capacity = 1

ProcSpec == ProcSpecInit /\ [][ProcNext]_vars

Computed == proc_rows.op = "compute_proc_rows"
PrevTable == previous_process_snapshot.by_pid
CurTable == current_process_snapshot.by_pid
NewPids == DOMAIN CurTable \ DOMAIN PrevTable
KnownPids == DOMAIN CurTable \cap DOMAIN PrevTable
RowsOf(pid) == {i \in DOMAIN proc_rows.val : proc_rows.val[i].pid = pid}
SameFraction(p, q) == p.n * q.d = q.n * p.d
CumulativeTicks(b) == b.utime_ticks + b.stime_ticks

\* C21: for every pid of cur that prev does not have, compute_proc_rows
\* emits exactly one row, with cpu_pct 0, wakeups_per_s 0 and cpu_time_s the
\* cumulative (utime + stime) / hz of cur.
C21_NewProcess ==
    Computed =>
        \A pid \in NewPids :
            /\ Cardinality(RowsOf(pid)) = 1
            /\ \A i \in RowsOf(pid) :
                  LET r == proc_rows.val[i] IN
                  /\ r.cpu_pct.n = 0 /\ r.cpu_pct.d > 0
                  /\ r.wakeups_per_s.n = 0 /\ r.wakeups_per_s.d > 0
                  /\ SameFraction(r.cpu_time_s,
                                  Fraction(CumulativeTicks(CurTable[pid]),
                                           current_process_snapshot.hz))

\* rows were computed for a new process that has used CPU time and for a
\* process of both snapshots
C21_Witness ==
    /\ Computed
    /\ \E pid \in NewPids : CumulativeTicks(CurTable[pid]) > 0
    /\ KnownPids # {}
    /\ current_process_snapshot.total_jiffies > previous_process_snapshot.total_jiffies

\* the place of row i of rows after a stable sort by falling cpu_pct
PlaceOf(rows, i) ==
    1 + Cardinality({j \in DOMAIN rows : Greater(rows[j].cpu_pct, rows[i].cpu_pct)})
      + Cardinality({j \in DOMAIN rows :
                       j < i /\ SameFraction(rows[j].cpu_pct, rows[i].cpu_pct)})

Ranked(rows) ==
    [n \in DOMAIN rows |-> rows[CHOOSE i \in DOMAIN rows : PlaceOf(rows, i) = n]]

\* C22: top_by_cpu returns the rows of compute_proc_rows by non-increasing
\* cpu_pct, rows of equal cpu_pct in their compute_proc_rows order, cut to
\* the first limit rows if limit > 0 and uncut if limit = 0.
C22_Ranking ==
    proc_rows.op = "top_by_cpu" =>
        LET rows == compute_proc_rows(previous_process_snapshot,
                                      current_process_snapshot, proc_rows.order)
            kept == IF proc_rows.limit > 0
                    THEN Min(proc_rows.limit, Len(rows)) ELSE Len(rows)
        IN /\ \A i, j \in DOMAIN rows : i # j => PlaceOf(rows, i) # PlaceOf(rows, j)
           /\ proc_rows.val = SubSeq(Ranked(rows), 1, kept)
           /\ \A n \in 1..(Len(proc_rows.val) - 1) :
                 ~Greater(proc_rows.val[n + 1].cpu_pct, proc_rows.val[n].cpu_pct)

\* of three rows, a lower one in front of two equal higher ones, top_by_cpu
\* with limit 2 returned the two higher ones in their order
C22_Witness ==
    /\ proc_rows.op = "top_by_cpu" /\ proc_rows.limit = 2
    /\ LET rows == compute_proc_rows(previous_process_snapshot,
                                     current_process_snapshot, proc_rows.order)
       IN /\ Len(rows) = 3
          /\ Greater(rows[2].cpu_pct, rows[1].cpu_pct)
          /\ SameFraction(rows[2].cpu_pct, rows[3].cpu_pct)
          /\ proc_rows.val = <<rows[2], rows[3]>>

\* max(0, cur.ticks - prev.ticks) with ticks = utime_ticks + stime_ticks
DeltaOfSums(a, b) == Max0(CumulativeTicks(b) - CumulativeTicks(a))

\* C23: for a pid of both snapshots the tick delta behind cpu_pct is
\* max(0, cur.ticks - prev.ticks), ticks being utime_ticks + stime_ticks,
\* also when one component falls while the other grows.
C23_TickDelta ==
    Computed =>
        \A pid \in KnownPids : \A i \in RowsOf(pid) :
            LET dt == proc_dt(previous_process_snapshot, current_process_snapshot)
                delta == DeltaOfSums(PrevTable[pid], CurTable[pid])
            IN SameFraction(proc_rows.val[i].cpu_pct,
                            Fraction(100 * delta * dt.d,
                                     current_process_snapshot.hz * dt.n))

TotalGrew == current_process_snapshot.total_jiffies > previous_process_snapshot.total_jiffies
TotalDelta == current_process_snapshot.total_jiffies - previous_process_snapshot.total_jiffies

C25_DegenerateTimeBase ==
    Computed =>
        /\ \A i \in DOMAIN proc_rows.val :
              /\ NonNegative(proc_rows.val[i].cpu_pct)
              /\ NonNegative(proc_rows.val[i].wakeups_per_s)
        /\ ~TotalGrew =>
              /\ SameFraction(proc_dt(previous_process_snapshot, current_process_snapshot),
                              Fraction(1, current_process_snapshot.hz))
              /\ \A pid \in KnownPids : \A i \in RowsOf(pid) :
                    /\ SameFraction(proc_rows.val[i].cpu_pct,
                          Whole(100 * DeltaTicks(PrevTable[pid], CurTable[pid])))
                    /\ SameFraction(proc_rows.val[i].wakeups_per_s,
                          Whole(current_process_snapshot.hz *
                                ClampedTicks(PrevTable[pid].ctx_switches,
                                             CurTable[pid].ctx_switches)))

\* the aggregate total fell between the reads, and a process of both
\* snapshots used ticks and was switched in
C25_Witness ==
    /\ Computed
    /\ current_process_snapshot.total_jiffies < previous_process_snapshot.total_jiffies
    /\ \E pid \in KnownPids : \A i \in RowsOf(pid) :
          /\ proc_rows.val[i].cpu_pct.n > 0
          /\ proc_rows.val[i].wakeups_per_s.n > 0

\* C26: the pids of the rows are the pids of cur, one row each; a pid that
\* only prev has gets no row.
C26_ExitedProcesses ==
    Computed =>
        /\ {proc_rows.val[i].pid : i \in DOMAIN proc_rows.val} = DOMAIN CurTable
        /\ Len(proc_rows.val) = Cardinality(DOMAIN CurTable)

\* rows were computed while a process of prev was gone from cur and cur
\* held a known and a new process
C26_Witness ==
    /\ Computed
    /\ DOMAIN PrevTable \ DOMAIN CurTable # {}
    /\ KnownPids # {} /\ NewPids # {}
    /\ Len(proc_rows.val) = 2

-----------------------------------------------------------------------------
(* main, the sampler thread and the HTTP handlers of /api/info *)

MainNext ==
    \/ MainCacheSystemMetadata
    \/ MainStartSampler
    \/ ApiInfo
    \/ MainListenReturns
    \/ MainClearFlag
    \/ MainJoin
    \/ SamplerWhile
    \/ SamplerCollect
    \/ SamplerProcesses
    \/ SamplerSleep

MainSpecInit == Init /\ per_metric_capacity = 2

MainSpec == MainSpecInit /\ [][MainNext]_vars

\* every read of the sampler thread and its sleep return, and main goes on
\* once listen has returned; listen itself need never return
FairMainSpec ==
    MainSpec /\ WF_vars(SamplerThread) /\ WF_vars(MainClearFlag) /\ WF_vars(MainJoin)

InTick == \E i \in 1..Len(TickCalls) : sampler_pc = TickCalls[i]

AfterCall(call) ==
    IF call = TickCalls[Len(TickCalls)] THEN "sleep_for"
    ELSE TickCalls[(CHOOSE i \in 1..Len(TickCalls) : TickCalls[i] = call) + 1]

\* the sampler leaves a call of the tick only for the next one, starts a
\* tick only from the loop's condition with the flag set, leaves the
\* condition with the flag cleared only by returning, and stays returned
CancelStep ==
    /\ InTick /\ sampler_pc' # sampler_pc => sampler_pc' = AfterCall(sampler_pc)
    /\ sampler_pc' = TickCalls[1] /\ sampler_pc # TickCalls[1]
          => sampler_pc = "while" /\ sampler_running
    /\ sampler_pc = "while" /\ ~sampler_running => sampler_pc' \in {"while", "returned"}
    /\ sampler_pc = "returned" => sampler_pc' = "returned"

\* a tick that has reached its sleep has made all five calls, and the
\* sampler that has returned has started no tick since main cleared the
\* flag and has finished the one that was in progress then
TickCompleted ==
    /\ sampler_pc = "sleep_for" => ran = TickCalls
    /\ sampler_pc = "returned" =>
          /\ iterations = cleared_at.iterations
          /\ iterations > 0 => ran = TickCalls

\* C27: the sampler loop reads the running flag only at the top of an
\* iteration: a tick in progress when the flag is cleared makes all its
\* calls, no tick starts once the flag is seen cleared, and with every read
\* and the sleep returning the thread returns and main's join with it
C27_CooperativeCancellation ==
    /\ [][CancelStep]_vars
    /\ []TickCompleted
    /\ (~sampler_running /\ InTick) ~> (sampler_pc = "sleep_for")
    /\ ~sampler_running ~> (main_pc = "return")

C27_Witness ==
    /\ main_pc = "return"
    /\ sampler_pc = "returned"
    /\ cleared_at.pc = TickCalls[2]
    /\ ran = TickCalls

\* a reader can run: the sampler thread has been started, or main has
\* reached listen
ReaderStarted == sampler_pc # "unstarted" \/ main_pc \notin {"cache_system_metadata", "start_sampler"}

\* put_metadata is called only by main, before the sampler is started and
\* before listen, and only when it has not been called before
MetadataStep ==
    metadata' # metadata \/ meta_puts' # meta_puts =>
        /\ main_pc = "cache_system_metadata"
        /\ ~ReaderStarted
        /\ meta_puts = <<>>

\* once a reader can run, put_metadata has been called once, for "system",
\* get_metadata("system") is the value passed then, and so is every answer
\* /api/info has given for that key
MetadataFixed ==
    ReaderStarted =>
        /\ Len(meta_puts) = 1
        /\ meta_puts[1][1] = "system"
        /\ get_metadata(metadata, "system") = meta_puts[1][2]
        /\ DOMAIN metadata = {"system"}
        /\ info.status = 200 /\ info.key = "system" => info.body = meta_puts[1][2]

\* C29: the "system" metadata is written exactly once, before the sampler
\* thread is started and before the server accepts a request; no sampler
\* tick and no handler writes metadata, so that get_metadata("system") is
\* the same value in every state a reader can observe
C29_MetadataWriteOnce == []MetadataFixed /\ [][MetadataStep]_vars

C29_Witness ==
    /\ info.status = 200
    /\ info.key = "system"
    /\ iterations = MaxIterations
    /\ InTick
    /\ main_pc = "listen"

Decreasing(s) == \E i \in 1..Len(s), j \in 1..Len(s) : i < j /\ s[i].ts_ms > s[j].ts_ms

\* C28: append takes a sample whatever its timestamp: the sample just
\* appended is the newest of its series, a series holds the last min(N, C) of
\* the N samples passed to append in the order they were passed, and a range
\* query returns the held samples of the window in that order, not by ts_ms
C28_ArrivalOrder ==
    /\ ret.op = "append" =>
          LET kept == RingSnapshot(series[ret.key].ring)
          IN kept # <<>> /\ kept[Len(kept)] = log[ret.key][Len(log[ret.key])]
    /\ \A k \in DOMAIN series :
          LET r == series[k].ring
              n == Len(LogOf(log, k))
          IN /\ RingSnapshot(r) = SubSeq(log[k], n - Min(n, r.cap) + 1, n)
             /\ \A w \in QueryWindows :
                   QueryResult(k, w[1], w[2]) = InWindow(RingSnapshot(r), w[1], w[2])
    /\ ret.op = "query" /\ ret.key \in DOMAIN series =>
          ret.val = InWindow(RingSnapshot(series[ret.key].ring), ret.from_ms, ret.to_ms)

\* a query returned a later timestamp in front of an earlier one
C28_Witness ==
    /\ ret.op = "query"
    /\ Len(ret.val) = 3
    /\ Decreasing(ret.val)
    /\ ret.val = RingSnapshot(series[ret.key].ring)

-----------------------------------------------------------------------------
(* The first tick of the CPU collector *)

TotalCpuSelector == metric_with_labels("cpu.total_pct", <<<<"host", HOST_LABEL>>>>)
CoreCpuSelector == metric_with_labels("cpu.core_pct", <<<<"host", HOST_LABEL>>>>)
Zeros(n) == [i \in 1..n |-> Whole(0)]
LastOf(q) == q[Len(q)]

\* one sample more is logged under the key than before, and it has the value
AppendedValue(l, key, value) ==
    /\ Len(LogOf(l', key)) = Len(LogOf(l, key)) + 1
    /\ LastOf(l'[key]).value = value

AppendedVals(l, key, vals) ==
    /\ Len(LogOf(l', key)) = Len(LogOf(l, key)) + 1
    /\ LastOf(l'[key]).vals = vals

CpuFirstTickStep ==
    Sampled /\ signal'.fn = "get_cpu_percent" =>
       \* the first successful call of get_cpu_total_percent
       /\ (~total_initialized /\ signal'.readable)
             => /\ signal'.total = Whole(0)
                /\ total_initialized'
                /\ last_total' = seen'.cpu.reading
                /\ AppendedValue(log, TotalCpuSelector, Whole(0))
       \* the first successful call of get_cpu_core_percent
       /\ (~core_initialized /\ signal'.ok)
             => /\ last_per_cpu' # <<>>
                /\ core_initialized'
                /\ core_percent_buffer' = Zeros(Len(last_per_cpu'))
                /\ AppendedVals(vlog, CoreCpuSelector, Zeros(Len(last_per_cpu')))
       \* the later successful calls
       /\ (total_initialized /\ signal'.readable)
             => /\ CpuPercent(last_total, seen'.cpu.reading, signal'.total)
                /\ last_total' = seen'.cpu.reading
                /\ AppendedValue(log, TotalCpuSelector, signal'.total)
       /\ (core_initialized /\ signal'.ok /\ ~signal'.died)
             => /\ Len(core_percent_buffer') = Len(last_per_cpu')
                /\ \A i \in CoresOfBoth :
                      CpuPercent(last_per_cpu[i], last_per_cpu'[i], core_percent_buffer'[i])
                /\ AppendedVals(vlog, CoreCpuSelector, core_percent_buffer')

\* C30: the first successful call of get_cpu_total_percent returns 0 and
\* that of get_cpu_core_percent a zero for every core, the readings become
\* the baselines and the sampler appends the zeros; every later successful
\* call returns 100 * delta(active) / delta(total) against the reading of
\* the successful call before it (0 when delta(total) is 0), the deltas
\* being the clamped ones, for the total and for every core of both readings
C30_CpuFirstTick == [][CpuFirstTickStep]_vars

\* two successful calls: zeros for the total and for two cores were
\* appended first, then a total above zero
C30_Witness ==
    /\ signal.fn = "get_cpu_percent"
    /\ seen.cpu.n = 2
    /\ Len(LogOf(log, TotalCpuSelector)) = 2
    /\ log[TotalCpuSelector][1].value = Whole(0)
    /\ log[TotalCpuSelector][2].value.n > 0
    /\ LogOf(vlog, CoreCpuSelector) # <<>>
    /\ vlog[CoreCpuSelector][1].vals = Zeros(2)

-----------------------------------------------------------------------------
(* Properties of the disk and network baselines *)

\* a tick of get_disk_io that emitted rates: every key of the output whose
\* own row is in both reads carries the rate of that row's delta alone
WholeDeviceStep ==
    (Sampled /\ signal'.fn = "get_disk_io" /\ signal'.divided) =>
       \A key \in DOMAIN disk_io_buffer' :
          key \in DOMAIN prev_values \cap DOMAIN prev_values' =>
             LET ms == disk_prev_time' - disk_prev_time
                 a == prev_values[key]
                 b == prev_values'[key]
             IN /\ SamePerSecond(disk_io_buffer'[key].bytes_read_per_s,
                                 512 * Max0(b.bytes_read - a.bytes_read), ms)
                /\ SamePerSecond(disk_io_buffer'[key].bytes_written_per_s,
                                 512 * Max0(b.bytes_written - a.bytes_written), ms)

\* C31: on a disk tick that emits rates a whole device that is read together
\* with its partitions is counted once: the rate under its key is its own
\* sector delta * 512 / dt, not that delta plus the partitions' deltas
C31_PartitionAggregation == [][WholeDeviceStep]_vars

\* the names a successful call read that the successful call before it had not
FreshBefore(c) ==
    DOMAIN seen[c].reading \ DOMAIN seen[c].earlier[Len(seen[c].earlier)]

DiskNamesOf(key, a, b) == {n \in DOMAIN a \cap DOMAIN b : base_device_name(n) = key}

DiskRateOf(rate, a, b, names, ms) ==
    /\ SamePerSecond(rate.bytes_read_per_s, 512 * SumOfDeltas(a, b, names, "bytes_read"), ms)
    /\ SamePerSecond(rate.bytes_written_per_s,
                     512 * SumOfDeltas(a, b, names, "bytes_written"), ms)

NetRateOf(rate, a, b, ms) ==
    /\ SamePerSecond(rate.rx_bytes_per_s, Max0(b.rx_bytes - a.rx_bytes), ms)
    /\ SamePerSecond(rate.tx_bytes_per_s, Max0(b.tx_bytes - a.tx_bytes), ms)

\* a successful call of a collector that follows another successful call,
\* a the reading of that one and b the reading of this
KeySetStep ==
    /\ (Sampled /\ signal'.fn = "get_disk_io" /\ signal'.ok /\ seen.disk.n >= 1) =>
          LET a == seen.disk.reading
              b == seen'.disk.reading
              ms == seen'.disk.time_now - seen.disk.time_now
          IN \* the baseline is the rows of this read: rows not read are gone
             /\ prev_values' = b
             \* a rate is made of the rows of both reads only
             /\ signal'.divided =>
                   \A key \in DOMAIN disk_io_buffer' :
                      /\ DiskNamesOf(key, a, b) # {}
                      /\ DiskRateOf(disk_io_buffer'[key], a, b, DiskNamesOf(key, a, b), ms)
             \* a row that was new at the call before is in this call's rates
             /\ (seen.disk.n >= 2 /\ ms > 0) =>
                   \A name \in FreshBefore("disk") \cap DOMAIN b :
                      LET key == base_device_name(name)
                      IN /\ key \in DOMAIN disk_io_buffer'
                         /\ name \in DiskNamesOf(key, a, b)
                         /\ DiskRateOf(disk_io_buffer'[key], a, b, DiskNamesOf(key, a, b), ms)
    /\ (Sampled /\ signal'.fn = "get_net_stats" /\ signal'.ok /\ seen.net.n >= 1) =>
          LET a == seen.net.reading
              b == seen'.net.reading
              ms == seen'.net.time_now - seen.net.time_now
          IN /\ prev' = b
             /\ signal'.divided =>
                   \A iface \in DOMAIN interface_rates' :
                      /\ iface \in DOMAIN a \cap DOMAIN b
                      /\ NetRateOf(interface_rates'[iface], a[iface], b[iface], ms)
             /\ (seen.net.n >= 2 /\ ms > 0) =>
                   \A iface \in FreshBefore("net") \cap DOMAIN b :
                      /\ iface \in DOMAIN interface_rates'
                      /\ NetRateOf(interface_rates'[iface], a[iface], b[iface], ms)

\* C32: in the disk and network collectors a row or interface that the
\* current read has and the previous read had not adds nothing to this
\* tick's rates and is in the rates of the next tick (clock advanced, still
\* present); one that the current read lacks emits nothing and leaves the
\* baseline, so that it is new again when it comes back
C32_PerKeyBaselines == [][KeySetStep]_vars

\* three successful network calls: wlan0 was not in the first read, came
\* with the second and has a rate after the third
C32_Witness ==
    /\ signal.fn = "get_net_stats"
    /\ seen.net.n = 3
    /\ "wlan0" \notin DOMAIN seen.net.earlier[1]
    /\ "wlan0" \in DOMAIN seen.net.earlier[2]
    /\ "wlan0" \in DOMAIN interface_rates
    /\ interface_rates["wlan0"].rx_bytes_per_s.n > 0

NetFirstCallStep ==
    (Sampled /\ signal'.fn = "get_net_stats" /\ seen.net.n = 0 /\ seen'.net.n = 1) =>
       /\ net_initialized'
       /\ net_prev_time' = seen'.net.time_now
       /\ DOMAIN prev' = DOMAIN seen'.net.reading
       /\ \A iface \in DOMAIN prev' : prev'[iface] = seen'.net.reading[iface]

\* C33: when the first successful call of get_net_stats returns, the
\* baseline holds the counters that call read for every interface but the
\* loopback, and that call's timestamp
C33_NetBaselineAfterFirstCall == [][NetFirstCallStep]_vars

-----------------------------------------------------------------------------
(* Properties of the per-core baseline *)

CoreIndexStep ==
    (Sampled /\ signal'.fn = "get_cpu_percent" /\ core_initialized
     /\ signal'.core_readable) =>
       /\ ~signal'.died
       /\ signal'.ok
       /\ Len(core_percent_buffer') = Len(last_per_cpu')
       \* every index the loop uses is an index of the previous reading
       /\ Len(last_per_cpu') <= Len(last_per_cpu)
       /\ \A i \in 1..Len(last_per_cpu') :
             CpuPercent(last_per_cpu[i], last_per_cpu'[i], core_percent_buffer'[i])

\* C34: for successful per-core reads with any numbers of core rows,
\* get_cpu_core_percent returns one element for every core row of the
\* current read, element i computed from row i of the previous and of the
\* current read, and indexes the previous reading only inside its bounds
C34_PerCoreIndexing == [][CoreIndexStep]_vars

-----------------------------------------------------------------------------
(* sample_process_metrics called again and again, beside /api/processes *)

PublishNext ==
    \/ SampleProcessMetrics
    \/ ApiProcesses

PublishSpec == ThreadSpecInit /\ [][PublishNext]_vars

ProcessCall == proc_seen'.calls = proc_seen.calls + 1

\* the table a successful read publishes: the ranking of the read against
\* the last successful read before it, in one of the orders of iteration
PublishedFor(earlier, read, blob) ==
    \E order \in KeyOrders(DOMAIN read.by_pid) :
       blob = serialize_process_rows(top_by_cpu(earlier, read, kProcessTableLimit, order))

PublishStep ==
    \* a failed read
    /\ (ProcessCall /\ proc_seen'.failed) =>
          /\ UNCHANGED <<snapshots, puts>>
          /\ UNCHANGED <<previous_process_snapshot, have_previous_process_snapshot>>
          /\ have_previous_process_snapshot => previous_process_snapshot = proc_seen.reading
    \* the first successful read
    /\ (ProcessCall /\ ~proc_seen'.failed /\ proc_seen.n = 0) =>
          /\ UNCHANGED <<snapshots, puts>>
          /\ previous_process_snapshot' = proc_seen'.reading
    \* a later successful read
    /\ (ProcessCall /\ ~proc_seen'.failed /\ proc_seen.n >= 1) =>
          /\ Len(puts') = Len(puts) + 1
          /\ "processes" \in DOMAIN snapshots'
          /\ PublishedFor(proc_seen.reading, proc_seen'.reading, snapshots'["processes"])
          /\ previous_process_snapshot' = proc_seen'.reading
    \* nothing else writes the snapshot
    /\ snapshots' # snapshots => ProcessCall /\ ~proc_seen'.failed /\ proc_seen.n >= 1

NotPublishedYet ==
    proc_seen.n < 2 =>
       /\ get_snapshot("processes") = JsonNull
       /\ ret.op = "api_processes" => ret.val = JsonArray(<<>>)

\* C35: the "processes" snapshot is written only by a call whose read
\* succeeds and that has an earlier successful read, so that
\* get_snapshot("processes") is empty until the second successful read; a
\* failed read writes nothing, keeps the published blob and the baseline, and
\* the next successful read is ranked against the last successful one
C35_SnapshotPublication == []NotPublishedYet /\ [][PublishStep]_vars

\* three calls of which one failed: the second successful read published
\* a table of two rows, ranked against the first successful read
C35_Witness ==
    /\ proc_seen.calls = 3
    /\ proc_seen.n = 2
    /\ ~proc_seen.failed
    /\ Len(puts) = 1
    /\ Len(get_snapshot("processes").items) = 2
    /\ get_snapshot("processes").items[1].cpu_pct.n > 0

-----------------------------------------------------------------------------
(* The shape of a ring *)

\* the rings of the store with the number of samples appended to each
RingsOf(m, l) == {<<m[k].ring, Len(LogOf(l, k))>> : k \in DOMAIN m}

RingShape(r, n) ==
    /\ r.cap >= 1
    /\ 0 <= r.size /\ r.size <= r.cap
    /\ 0 <= r.head /\ r.head < r.cap
    /\ 0 <= r.tail /\ r.tail < r.cap
    /\ r.head = (r.tail + r.size) % r.cap
    /\ n <= r.cap => r.tail = 0

RingShapes ==
    \A p \in RingsOf(series, log) \cup RingsOf(vec_series, vlog) : RingShape(p[1], p[2])

\* an append to a ring that is not full leaves tail alone, an append to a
\* full one leaves size alone
RingAppended(before, after) ==
    /\ before.size < before.cap => after.tail = before.tail /\ after.size = before.size + 1
    /\ before.size = before.cap =>
          after.size = before.size /\ after.tail = (before.tail + 1) % before.cap
    /\ after.head = (before.head + 1) % before.cap

RingAppendStep ==
    /\ \A k \in DOMAIN series :
          Len(LogOf(log', k)) = Len(LogOf(log, k)) + 1 =>
             RingAppended(series[k].ring, series'[k].ring)
    /\ \A k \in DOMAIN vec_series :
          Len(LogOf(vlog', k)) = Len(LogOf(vlog, k)) + 1 =>
             RingAppended(vec_series[k].ring, vec_series'[k].ring)

\* C36: in a ring of capacity cap >= 1, after any appends, 0 <= size <= cap,
\* head < cap, tail < cap, head = (tail + size) mod cap, and tail = 0 until an
\* append finds the ring full; an append to a ring that is not full leaves
\* tail unchanged and an append to a full ring leaves size unchanged
C36_RingStructure == []RingShapes /\ [][RingAppendStep]_vars

\* a ring of capacity 2 that was appended to three times: full, its tail
\* and its head moved on to 1
C36_Witness ==
    \E k \in DOMAIN series :
       LET r == series[k].ring
       IN r.cap = 2 /\ Len(LogOf(log, k)) = 3 /\ r.size = 2 /\ r.tail = 1 /\ r.head = 1

-----------------------------------------------------------------------------
(* The poller under any calls of start and stop, timers and settlements *)

PollerNext ==
    \/ PollerStart
    \/ PollerStop
    \/ TimerFires
    \/ TaskSettles

PollerSpec == ThreadSpecInit /\ [][PollerNext]_vars

SingleFlight == poller.tasks <= 1 /\ (poller.inFlight <=> poller.tasks = 1)

\* an invocation of task begins only in a turn that leaves the poller
\* started: the turn of start() itself, or a timer's with stopped false
InvokedStep == poller'.tasks > poller.tasks => ~poller'.stopped /\ ~poller.inFlight

\* C37: after any start(), stop() and timer firings at most one invocation
\* of the poller's task is in progress, and after stop() no invocation
\* begins until start() is called again
C37_SingleFlight == []SingleFlight /\ [][InvokedStep]_vars

\* a timer has fired in the stopped poller, after earlier timers: no
\* invocation began
C37_Witness ==
    /\ poller_last = "timer"
    /\ poller.stopped
    /\ poller.tasks = 0
    /\ poller.next_timer > 2

\* C38: after any start(), stop() and task completions, a stop() followed
\* by a start() while a task is in flight among them, at most one timer is
\* pending
C38_SingleTimerChain == Cardinality(poller.pending) <= 1

====
